---- MODULE Spec2Model ----
(***************************************************************************)
(* A model of the two tools of WillAbides/overexported:                    *)
(*                                                                         *)
(*   deadcode     (cmd/deadcode main.go: run, gatherSourceInfo,            *)
(*                 buildJSONPackages, isMarkerMethod)                      *)
(*   overexported (internal/overexported/overexported.go: Run and the      *)
(*                 collectors, usage finders and buildResult it calls)     *)
(*                                                                         *)
(* Each tool is a pipeline run once per invocation.  The loaded program    *)
(* (packages, IR functions, type-check tables) and the result of           *)
(* rta.Analyze are inputs: they come from golang.org/x/tools and are drawn *)
(* from bounded sets.                                                      *)
(***************************************************************************)
EXTENDS Integers, Sequences, FiniteSets, TLC

VARIABLES
    pc,             \* position of the running tool in its pipeline
    filter,         \* both tools: the compiled filter regular expression
    generated,      \* both tools: the names of the generated files
    cfg,            \* deadcode: the parsed flags (config)
    funcs,          \* deadcode: the IR functions of the program (prog)
    sourceFuncs,    \* deadcode: gatherSourceInfo's sourceFuncs
    Reachable,      \* deadcode: res.Reachable of rta.Analyze
    reachablePosn,  \* deadcode: run's reachablePosn
    byPkgPath,      \* deadcode: run's byPkgPath
    jsonPkgs,       \* deadcode: the records handed to printObjects
    roots,          \* deadcode: run's roots, init and main of each main package
    CallGraph,      \* deadcode: res.CallGraph of rta.Analyze, built for -whylive
    worklist,       \* RTA: the functions whose bodies have not yet been scanned
    RuntimeTypes,   \* RTA: the live concrete types
    sites,          \* RTA: the dynamic call sites seen so far
    pathTargets,    \* pathSearch: its targets
    pathResult,     \* pathSearch: what it returns, the root and the path
    patterns,       \* overexported: Run's patterns
    opts,           \* overexported: Run's Options
    prog,           \* the analysed program, as x/tools loads and reports it
    targetPaths,    \* overexported: buildTargetPaths' result
    exports,        \* overexported: collectExportsSSA's exports
    externallyUsed, \* overexported: the usage index (used)
    result,         \* overexported: Result.Exports
    err,            \* overexported: Run's error, "" for nil
    args,           \* the command line of the tool, <<>> when Run is called as a library
    stdout,         \* what the command has written to its standard output
    stderr,         \* the error the command has written, "" for none
    exitCode        \* the exit code of the command, -1 while it runs

\* The variables deadcode alone uses, and those overexported alone uses.
dcVars == <<cfg, funcs, sourceFuncs, Reachable, reachablePosn, byPkgPath, jsonPkgs,
           roots, CallGraph, worklist, RuntimeTypes, sites, pathTargets, pathResult>>

\* The variables of the RTA engine alone.
rtaVars == <<worklist, RuntimeTypes, sites>>

\* The variables of pathSearch called by itself.
searchVars == <<pathTargets, pathResult>>

ovVars == <<patterns, opts, prog, targetPaths, exports, externallyUsed, result, err>>

\* The variables of the commands around the two pipelines.
ioVars == <<args, stdout, stderr, exitCode>>

vars == <<pc, filter, generated, dcVars, ovVars, ioVars>>

----------------------------------------------------------------------------
(* Bounds *)

\* number of IR functions of the analysed program
MaxFn == 2

----------------------------------------------------------------------------
(* Source files, packages and positions *)

\* The source files of the analysed program.  A file belongs to one package
\* (its directory) and either bears the "Code generated ... DO NOT EDIT."
\* header (ast.IsGenerated) or not.
Files == {"p/a.go", "p/g.go", "q/b.go", "p_test/c.go"}

\* The import path of the package of a file: p, q, and p_test, a package of
\* its own whose import path ends in "_test".
FilePkg(file) ==
    CASE file \in {"p/a.go", "p/g.go"} -> "p"
      [] file = "q/b.go" -> "q"
      [] file = "p_test/c.go" -> "p_test"

IsGenerated(file) == file = "p/g.go"

PkgPaths == {FilePkg(f) : f \in Files}

\* token.Position restricted to the fields the tools read.
Posn(file, line) == [Filename |-> file, Line |-> line, Column |-> 1]

\* prog.Fset.Position(token.NoPos): the zero Position.
NoPosition == [Filename |-> "", Line |-> 0, Column |-> 0]

\* The declaration positions of the analysed program.
DeclPosns ==
    { [Filename |-> "p/a.go", Line |-> 1, Column |-> 1],
      [Filename |-> "p/a.go", Line |-> 2, Column |-> 1],
      [Filename |-> "p/g.go", Line |-> 1, Column |-> 1],
      [Filename |-> "q/b.go", Line |-> 1, Column |-> 1] }

----------------------------------------------------------------------------
(* Strings: the Go string operations the tools use *)

\* The characters of the names and paths of the model, in byte order.
Bytes == "./0123456789ABCDEFGHIJKLMNOPQRSTUVWXYZ[]_abcdefghijklmnopqrstuvwxyz"

Upper == "ABCDEFGHIJKLMNOPQRSTUVWXYZ"

\* Whether the one-character string c occurs in the string set.
InString(c, set) == \E i \in 1..Len(set) : SubSeq(set, i, i) = c

ByteRank(c) == CHOOSE i \in 1..Len(Bytes) : SubSeq(Bytes, i, i) = c

\* Go's a < b on strings: byte-wise lexicographic order.
RECURSIVE StrLess(_, _)
StrLess(a, b) ==
    IF b = "" THEN FALSE
    ELSE IF a = "" THEN TRUE
    ELSE LET x == SubSeq(a, 1, 1)
             y == SubSeq(b, 1, 1)
         IN  IF x # y THEN ByteRank(x) < ByteRank(y)
             ELSE StrLess(Tail(a), Tail(b))

\* strings.HasPrefix, strings.HasSuffix
HasPrefix(str, prefix) ==
    Len(str) >= Len(prefix) /\ SubSeq(str, 1, Len(prefix)) = prefix

HasSuffix(str, suffix) ==
    Len(str) >= Len(suffix)
        /\ SubSeq(str, Len(str) - Len(suffix) + 1, Len(str)) = suffix

\* strings.TrimSuffix
TrimSuffix(str, suffix) ==
    IF HasSuffix(str, suffix) THEN SubSeq(str, 1, Len(str) - Len(suffix)) ELSE str

\* token.IsExported / ast.IsExported / types.Object.Exported: the name
\* begins with an upper-case letter.
IsExported(name) == name # "" /\ InString(SubSeq(name, 1, 1), Upper)

----------------------------------------------------------------------------
(* deadcode: the IR functions *)

\* What isMarkerMethod reads of a declared function: its name, whether it
\* has a receiver, whether Params()/Results() are non-nil, its body
\* ("nil": no body, "empty": {}, "stmts": at least one statement) and
\* whether the receiver type implements an interface of the same package.
DeclShapes ==
    { [Name |-> "m", Recv |-> TRUE,  Params |-> FALSE, Results |-> FALSE,
       Body |-> "empty", Implements |-> TRUE],
      [Name |-> "m", Recv |-> FALSE, Params |-> FALSE, Results |-> FALSE,
       Body |-> "empty", Implements |-> FALSE],
      [Name |-> "M", Recv |-> TRUE,  Params |-> FALSE, Results |-> FALSE,
       Body |-> "empty", Implements |-> TRUE],
      [Name |-> "m", Recv |-> TRUE,  Params |-> TRUE,  Results |-> FALSE,
       Body |-> "empty", Implements |-> TRUE],
      [Name |-> "m", Recv |-> TRUE,  Params |-> FALSE, Results |-> TRUE,
       Body |-> "empty", Implements |-> TRUE],
      [Name |-> "m", Recv |-> TRUE,  Params |-> FALSE, Results |-> FALSE,
       Body |-> "stmts", Implements |-> TRUE],
      [Name |-> "m", Recv |-> TRUE,  Params |-> FALSE, Results |-> FALSE,
       Body |-> "nil", Implements |-> TRUE],
      [Name |-> "m", Recv |-> TRUE,  Params |-> FALSE, Results |-> FALSE,
       Body |-> "empty", Implements |-> FALSE] }

\* The shapes the declaration at a position may take: every shape at the
\* first position of p/a.go, a marker method or a plain function elsewhere.
ShapesAt(p) ==
    IF p.Filename = "p/a.go" /\ p.Line = 1
    THEN DeclShapes
    ELSE { s \in DeclShapes :
             /\ s.Name = "m" /\ ~s.Params /\ ~s.Results /\ s.Body = "empty"
             /\ s.Recv = s.Implements }

\* A function declared in source (an ast.FuncDecl of a loaded package):
\* it has a valid position and a package.
SourceFns ==
    UNION { { [Pos |-> p, Source |-> TRUE, Name |-> s.Name, Recv |-> s.Recv,
               Params |-> s.Params, Results |-> s.Results, Body |-> s.Body,
               Implements |-> s.Implements] : s \in ShapesAt(p) } : p \in DeclPosns }

\* An IR function with no declaration of its own in sourceFuncs: a generic
\* instantiation or an anonymous function (valid position), the synthetic
\* package initializer "init" or a synthetic wrapper (no position).
OtherFns ==
    { [Pos |-> p, Source |-> FALSE, Name |-> n, Recv |-> FALSE,
       Params |-> FALSE, Results |-> FALSE, Body |-> "nil",
       Implements |-> FALSE] :
         p \in {[Filename |-> "p/a.go", Line |-> 1, Column |-> 1], NoPosition},
         n \in {"F"} }
    \cup
    { [Pos |-> NoPosition, Source |-> FALSE, Name |-> "init", Recv |-> FALSE,
       Params |-> FALSE, Results |-> FALSE, Body |-> "nil",
       Implements |-> FALSE] }

FnRecords == SourceFns \cup OtherFns

Fns == 1..MaxFn

\* Test variants compile one declaration into several IR functions; they
\* share the declaration's syntax, so they agree on what the declaration
\* says.
SameDeclaration(fs) ==
    \A i, j \in DOMAIN fs :
        (fs[i].Source /\ fs[j].Source /\ fs[i].Pos = fs[j].Pos)
            => fs[i] = fs[j]

\* fn.Pos().IsValid()
PosIsValid(fn) == fn.Pos # NoPosition

\* fn.Pkg.Pkg.Path() of a declared function
FnPkgPath(fn) == FilePkg(fn.Pos.Filename)

\* A compiled regular expression on package paths, given by the set of
\* package paths of the program it matches: the empty expression matches
\* every path, "^p\\b" matches p alone.
Filters == {PkgPaths, {"p"}}

\* filter.MatchString(pkgpath)
MatchString(re, pkgpath) == pkgpath \in re

----------------------------------------------------------------------------
(* deadcode: helpers *)

\* The elements of a set of function numbers, in increasing order.
RECURSIVE Ascending(_)
Ascending(S) ==
    IF S = {} THEN <<>>
    ELSE LET x == CHOOSE y \in S : \A z \in S : y <= z
         IN  <<x>> \o Ascending(S \ {x})

\* The sequences that hold every element of S once.
Orderings(S) ==
    { s \in [1..Cardinality(S) -> S] : \A x \in S : \E i \in DOMAIN s : s[i] = x }

\* The subsequence of s of the elements that satisfy Keep.
RECURSIVE SelectFrom(_, _)
SelectFrom(s, keep) ==
    IF s = <<>> THEN <<>>
    ELSE IF Head(s) \in keep THEN <<Head(s)>> \o SelectFrom(Tail(s), keep)
    ELSE SelectFrom(Tail(s), keep)

\* The test of the body inverted: a body with statements taken for empty.
isMarkerMethodAnyBody(fn) ==
    IF \/ ~fn.Recv
       \/ IsExported(fn.Name)
       \/ fn.Params
       \/ fn.Results
    THEN FALSE
    ELSE IF fn.Body = "nil" \/ fn.Body = "empty"
    THEN FALSE
    ELSE fn.Implements

\* isMarkerMethod: an unexported, empty-bodied method with no parameters
\* or results whose receiver implements some named interface type of the
\* same package.
isMarkerMethod(fn) ==
    IF \/ ~fn.Recv
       \/ IsExported(fn.Name)
       \/ fn.Params
       \/ fn.Results
    THEN FALSE
    ELSE IF fn.Body = "nil" \/ fn.Body = "stmts"
    THEN FALSE
    ELSE fn.Implements

\* toJSONPosition keeps file, line and column.
toJSONPosition(posn) ==
    [File |-> posn.Filename, Line |-> posn.Line, Col |-> posn.Column]

----------------------------------------------------------------------------
(* deadcode: run *)

\* No command line: the pipeline is run on its own.
NoCommand ==
    /\ args = <<>>
    /\ stdout = <<>>
    /\ stderr = ""
    /\ exitCode = -1

\* overexported is not running.
OverexportedIdle ==
    /\ patterns = <<>>
    /\ opts = <<>>
    /\ prog = <<>>
    /\ targetPaths = {}
    /\ exports = <<>>
    /\ externallyUsed = {}
    /\ result = <<>>
    /\ err = ""

InitDeadcode ==
    /\ pc = "start"
    /\ cfg \in [generated : BOOLEAN, whyLive : {""}]
    /\ filter \in Filters
    /\ funcs \in [Fns -> FnRecords]
    /\ SameDeclaration(funcs)
    /\ sourceFuncs = <<>>
    /\ generated = {}
    /\ Reachable = {}
    /\ reachablePosn = {}
    /\ byPkgPath = <<>>
    /\ jsonPkgs = <<>>
    /\ roots = <<>>
    /\ CallGraph = <<>>
    /\ worklist = {}
    /\ RuntimeTypes = {}
    /\ sites = {}
    /\ pathTargets = {}
    /\ pathResult = <<>>
    /\ OverexportedIdle
    /\ NoCommand

\* gatherSourceInfo: the declared functions of the loaded packages, in the
\* order packages.Visit meets them, and the names of the generated files.
gatherSourceInfo ==
    /\ pc = "start"
    /\ sourceFuncs' = Ascending({f \in DOMAIN funcs : funcs[f].Source})
    /\ generated' = {file \in Files : IsGenerated(file)}
    /\ pc' = "analyze"
    /\ UNCHANGED <<cfg, filter, funcs, Reachable, reachablePosn, byPkgPath, jsonPkgs, roots, CallGraph, rtaVars, searchVars, ovVars, ioVars>>

\* res := rta.Analyze(roots, ...): the reachable IR functions.
Analyze ==
    /\ pc = "analyze"
    /\ \E R \in SUBSET Fns : Reachable' = R
    /\ pc' = "posn"
    /\ UNCHANGED <<cfg, filter, funcs, sourceFuncs, generated, reachablePosn, byPkgPath, jsonPkgs, roots, CallGraph, rtaVars, searchVars, ovVars, ioVars>>

\* The loop with "&&" in place of "||": only a positioned "init" recorded.
ReachablePositionsInitOnly(reach) ==
    { funcs[f].Pos : f \in { g \in reach :
                                PosIsValid(funcs[g]) /\ funcs[g].Name = "init" } }

\* run, "for fn := range res.Reachable": the positions of the reachable
\* functions that have one, and the zero position for a reachable "init".
ReachablePositions(reach) ==
    { funcs[f].Pos : f \in { g \in reach :
                                PosIsValid(funcs[g]) \/ funcs[g].Name = "init" } }

markReachablePosn ==
    /\ pc = "posn"
    /\ reachablePosn' = ReachablePositions(Reachable)
    /\ pc' = "group"
    /\ UNCHANGED <<cfg, filter, funcs, sourceFuncs, generated, Reachable, byPkgPath, jsonPkgs, roots, CallGraph, rtaVars, searchVars, ovVars, ioVars>>

\* The iteration without "reachablePosn[posn] = true // suppress dups".
GroupStepKeepDups(st, f) ==
    LET posn == funcs[f].Pos
        pkgpath == FnPkgPath(funcs[f])
        m == IF pkgpath \in DOMAIN st.by THEN st.by[pkgpath] ELSE {}
    IN  IF posn \notin st.posn
        THEN [posn |-> st.posn,
              by |-> [k \in DOMAIN st.by \cup {pkgpath} |->
                        IF k = pkgpath THEN m \cup {f} ELSE st.by[k]]]
        ELSE st

\* One iteration of run's "for _, fn := range sourceFuncs": st is
\* [posn |-> reachablePosn, by |-> byPkgPath].
GroupStep(st, f) ==
    LET posn == funcs[f].Pos
        pkgpath == FnPkgPath(funcs[f])
        m == IF pkgpath \in DOMAIN st.by THEN st.by[pkgpath] ELSE {}
    IN  IF posn \notin st.posn
        THEN [posn |-> st.posn \cup {posn},
              by |-> [k \in DOMAIN st.by \cup {pkgpath} |->
                        IF k = pkgpath THEN m \cup {f} ELSE st.by[k]]]
        ELSE st

RECURSIVE GroupLoop(_, _)
GroupLoop(st, fs) ==
    IF fs = <<>> THEN st ELSE GroupLoop(GroupStep(st, Head(fs)), Tail(fs))

groupUnreachable ==
    /\ pc = "group"
    /\ cfg.whyLive = ""
    /\ LET st == GroupLoop([posn |-> reachablePosn, by |-> <<>>], sourceFuncs)
       IN  /\ reachablePosn' = st.posn
           /\ byPkgPath' = st.by
    /\ pc' = "build"
    /\ UNCHANGED <<cfg, filter, funcs, sourceFuncs, generated, Reachable, jsonPkgs, roots, CallGraph, rtaVars, searchVars, ovVars, ioVars>>

\* The comparison of buildJSONPackages' sort.Slice: file name, then line.
PosnLess(x, y) ==
    IF x.Filename # y.Filename
    THEN StrLess(x.Filename, y.Filename)
    ELSE x.Line < y.Line

\* sort.Slice is not stable and the keys of the map arrive in any order:
\* every ordering with no pair out of order is a possible outcome.
SortedOrderings(S) ==
    { s \in Orderings(S) :
        \A i, j \in DOMAIN s :
            i < j => ~PosnLess(funcs[s[j]].Pos, funcs[s[i]].Pos) }

\* The loop without the skip of the generated files.
RECURSIVE jsonFunctionsGeneratedToo(_)
jsonFunctionsGeneratedToo(fns) ==
    IF fns = <<>> THEN <<>>
    ELSE LET fn == funcs[Head(fns)]
             gen == fn.Pos.Filename \in generated
             marker == isMarkerMethod(fn)
         IN  IF marker
             THEN jsonFunctionsGeneratedToo(Tail(fns))
             ELSE <<[Name |-> fn.Name, Position |-> toJSONPosition(fn.Pos),
                     Generated |-> gen, Marker |-> marker]>>
                  \o jsonFunctionsGeneratedToo(Tail(fns))

\* The body of "for _, fn := range fns": the records of one package.
RECURSIVE jsonFunctions(_)
jsonFunctions(fns) ==
    IF fns = <<>> THEN <<>>
    ELSE LET fn == funcs[Head(fns)]
             gen == fn.Pos.Filename \in generated
             marker == isMarkerMethod(fn)
         IN  IF gen /\ ~cfg.generated
             THEN jsonFunctions(Tail(fns))
             ELSE IF marker
             THEN jsonFunctions(Tail(fns))
             ELSE <<[Name |-> fn.Name, Position |-> toJSONPosition(fn.Pos),
                     Generated |-> gen, Marker |-> marker]>>
                  \o jsonFunctions(Tail(fns))

\* slices.Sorted(maps.Keys(byPkgPath))
RECURSIVE SortedKeys(_)
SortedKeys(S) ==
    IF S = {} THEN <<>>
    ELSE LET x == CHOOSE y \in S : \A z \in S : y = z \/ StrLess(y, z)
         IN  <<x>> \o SortedKeys(S \ {x})

\* The body of "for _, pkgpath := range ..." over the remaining keys;
\* order[pkgpath] is the outcome of the sort of that package's functions.
RECURSIVE jsonPackages(_, _)
jsonPackages(keys, order) ==
    IF keys = <<>> THEN <<>>
    ELSE LET pkgpath == Head(keys)
             rest == jsonPackages(Tail(keys), order)
         IN  IF ~MatchString(filter, pkgpath)
             THEN rest
             ELSE LET functions == jsonFunctions(order[pkgpath])
                  IN  IF Len(functions) > 0
                      THEN <<[Path |-> pkgpath, Funcs |-> functions]>> \o rest
                      ELSE rest

buildJSONPackages ==
    /\ pc = "build"
    /\ \E sorted \in SortedOrderings(UNION {byPkgPath[k] : k \in DOMAIN byPkgPath}) :
         LET order == [k \in DOMAIN byPkgPath |-> SelectFrom(sorted, byPkgPath[k])]
         IN  jsonPkgs' = jsonPackages(SortedKeys(DOMAIN byPkgPath), order)
    /\ pc' = "done"
    /\ UNCHANGED <<cfg, filter, funcs, sourceFuncs, generated, Reachable, reachablePosn, byPkgPath, roots, CallGraph, rtaVars, searchVars, ovVars, ioVars>>

NextDeadcode ==
    \/ gatherSourceInfo
    \/ Analyze
    \/ markReachablePosn
    \/ groupUnreachable
    \/ buildJSONPackages

SpecDeadcode == InitDeadcode /\ [][NextDeadcode]_vars

----------------------------------------------------------------------------
(* overexported: types, IR functions and the declarations of the program *)

\* types.Type, by the cases collectTypeRefs tells apart.  A Named or Alias
\* type has the package path and name of its object (Pkg "" for an object
\* with no package, such as error).
Basic == [k |-> "Basic"]

Named(pkg, name, targs) == [k |-> "Named", Pkg |-> pkg, Name |-> name, TypeArgs |-> targs]

Alias(pkg, name, rhs) == [k |-> "Alias", Pkg |-> pkg, Name |-> name, Rhs |-> rhs]

Pointer(elem) == [k |-> "Pointer", Elem |-> elem]

Slice(elem) == [k |-> "Slice", Elem |-> elem]

Array(elem) == [k |-> "Array", Elem |-> elem]

Chan(elem) == [k |-> "Chan", Elem |-> elem]

Map(key, elem) == [k |-> "Map", Key |-> key, Elem |-> elem]

Signature(params, results) == [k |-> "Signature", Params |-> params, Results |-> results]

Struct(fields) == [k |-> "Struct", Fields |-> fields]

Interface(methods) == [k |-> "Interface", Methods |-> methods]

\* fn.Signature.Recv() == nil
NoRecv == [k |-> "NoRecv"]

\* An *ssa.Function as the usage analysis reads it.  Pkg is the path of
\* fn.Pkg, "" when fn.Pkg is nil (an instantiation of a generic function,
\* a synthetic wrapper); Origin is the path of fn.Origin().Pkg, "" when
\* there is none; Recv is the receiver type; Params, Results are the types
\* of fn.Params and fn.Signature.Results(); Instrs the instructions of the
\* body, each with the type collectTypeRefsFromFunc reads of it.
Function(pkg, origin, recv, name) ==
    [Pkg |-> pkg, Origin |-> origin, Recv |-> recv, Name |-> name,
     Params |-> <<>>, Results |-> <<>>, Instrs |-> <<>>]

\* The members of the packages of the program (ssaPkg.Members), with the
\* methods of each type (the method sets of T and *T).  MethodValue is what
\* prog.MethodValue returns for the method: "func" a declared function,
\* "synthetic" a wrapper (a promoted method), "nil" none (an interface
\* method, a method of a generic type).
FuncMember(pkg, name, pos) ==
    [Pkg |-> pkg, Kind |-> "func", Name |-> name, Pos |-> pos, Synthetic |-> FALSE]

TypeMember(pkg, name, pos, isNamed, methods) ==
    [Pkg |-> pkg, Kind |-> "type", Name |-> name, Pos |-> pos,
     IsNamed |-> isNamed, Methods |-> methods]

GlobalMember(pkg, name, pos) == [Pkg |-> pkg, Kind |-> "var", Name |-> name, Pos |-> pos]

ConstMember(pkg, name, pos) == [Pkg |-> pkg, Kind |-> "const", Name |-> name, Pos |-> pos]

Method(name, pos, ptrRecv, methodValue) ==
    [Name |-> name, Pos |-> pos, PtrRecv |-> ptrRecv, MethodValue |-> methodValue]

Members ==
    { FuncMember("p", "F", Posn("p/a.go", 1)),
      FuncMember("p", "f", Posn("p/a.go", 2)),
      FuncMember("p", "G", Posn("p/a.go", 3)),          \* generic
      FuncMember("p", "GenF", Posn("p/g.go", 1)),
      [Pkg |-> "p", Kind |-> "func", Name |-> "init", Pos |-> NoPosition,
       Synthetic |-> TRUE],
      GlobalMember("p", "V", Posn("p/a.go", 4)),
      GlobalMember("p", "v", Posn("p/a.go", 5)),
      ConstMember("p", "K", Posn("p/a.go", 6)),
      ConstMember("p", "k", Posn("p/a.go", 7)),
      TypeMember("p", "T", Posn("p/a.go", 8), TRUE,
          { Method("M", Posn("p/a.go", 9), FALSE, "func"),
            Method("m", Posn("p/a.go", 10), FALSE, "func"),
            Method("P", Posn("p/a.go", 11), TRUE, "func"),
            Method("GenM", Posn("p/g.go", 2), FALSE, "func"),
            Method("W", NoPosition, FALSE, "synthetic") }),
      TypeMember("p", "t", Posn("p/a.go", 12), TRUE,
          { Method("M", Posn("p/a.go", 13), FALSE, "func") }),
      TypeMember("p", "GenT", Posn("p/g.go", 3), TRUE,
          { Method("M", Posn("p/a.go", 14), FALSE, "func") }),
      TypeMember("p", "A", Posn("p/a.go", 15), FALSE, {}),  \* alias of T
      TypeMember("p", "I", Posn("p/a.go", 16), TRUE,        \* interface
          { Method("M", NoPosition, FALSE, "nil") }),
      TypeMember("p", "GT", Posn("p/a.go", 17), TRUE,       \* generic
          { Method("M", Posn("p/a.go", 18), FALSE, "nil") }),
      FuncMember("q", "F", Posn("q/b.go", 1)),
      FuncMember("p_test", "F", Posn("p_test/c.go", 1)) }

\* allPkgs: the packages packages.Load returns for "./...".
AllPkgs == {"p", "q", "p_test"}

\* The sets of at most n elements of S.
RECURSIVE SubsetsUpTo(_, _)
SubsetsUpTo(S, n) ==
    IF n = 0 THEN {{}}
    ELSE LET smaller == SubsetsUpTo(S, n - 1)
         IN  smaller \cup { x \cup {e} : x \in smaller, e \in S }

----------------------------------------------------------------------------
(* overexported: package patterns, keys and the usage analysis *)

\* matchPattern with its last test alone: the pattern is the path.
matchPatternExact(pattern, pkgPath) == pattern = pkgPath

\* matchPattern: a Go package pattern against an import path.
matchPattern(pattern, pkgPath) ==
    IF pattern = "./..." THEN TRUE
    ELSE IF HasSuffix(pattern, "/...")
    THEN LET prefix == TrimSuffix(pattern, "/...")
         IN  pkgPath = prefix \/ HasPrefix(pkgPath, prefix \o "/")
    ELSE IF pattern = "..." THEN TRUE
    ELSE pattern = pkgPath

\* matchPackagePatterns: some pattern of the list matches.
matchPackagePatterns(pats, pkgPath) ==
    \E i \in DOMAIN pats : matchPattern(pats[i], pkgPath)

\* loadPackages' needsTargetMatching: some pattern is neither "./..." nor
\* "...".
needsTargetMatching(pats) ==
    \E i \in DOMAIN pats : pats[i] # "./..." /\ pats[i] # "..."

\* buildTargetPaths
buildTargetPaths(allPkgs, pats, needsMatching) ==
    { pkg \in allPkgs : ~needsMatching \/ matchPackagePatterns(pats, pkg) }

\* A nil *regexp.Regexp.
NilRegexp == {"<nil>"}

\* regexp.Compile on the filter expressions of the model, as the set of
\* import paths the expression matches.
Compile(pattern) ==
    CASE pattern = "^p$" -> {"p"}

\* regexp.Compile returns no error: "[" is an expression it rejects.
CompileOk(pattern) == pattern # "["

\* The word characters of a regular expression: [0-9A-Za-z_].
WordChars == "0123456789ABCDEFGHIJKLMNOPQRSTUVWXYZ_abcdefghijklmnopqrstuvwxyz"

\* \b after the first i characters of s: a word character on one side and
\* none on the other.
WordBoundary(s, i) ==
    LET before == i >= 1 /\ i <= Len(s) /\ InString(SubSeq(s, i, i), WordChars)
        after == i + 1 <= Len(s) /\ InString(SubSeq(s, i + 1, i + 1), WordChars)
    IN  before # after

\* regexp.Compile of "^(" + the quoted module paths joined by "|" + ")\b",
\* as the set of import paths it matches: those that begin with one of the
\* module paths, a word boundary after it.
CompileModules(mods) ==
    { path \in AllPkgs : \E m \in mods : HasPrefix(path, m) /\ WordBoundary(path, Len(m)) }

\* The module paths buildFilterPattern collects from the packages: initial
\* gives each package the path of its module, "" for none.
ModulePaths(initial) == { initial[pkg] : pkg \in DOMAIN initial } \ {""}

\* buildFilterPattern that never builds a filter.
exBuildFilterPatternNil(o, initial) == NilRegexp

\* buildFilterPattern, overexported: no filter for the empty string, nor for
\* "<module>" when no package has a module.
exBuildFilterPattern(o, initial) ==
    IF o.Filter = "" THEN NilRegexp
    ELSE IF o.Filter = "<module>"
    THEN IF ModulePaths(initial) = {} THEN NilRegexp
         ELSE CompileModules(ModulePaths(initial))
    ELSE Compile(o.Filter)

\* normalizePkgPath
normalizePkgPath(pkgPath, o) ==
    IF ~o.Test THEN TrimSuffix(pkgPath, "_test") ELSE pkgPath

\* getSSAPkgPath
getSSAPkgPath(fn) ==
    IF fn.Pkg # "" THEN fn.Pkg
    ELSE IF fn.Origin # "" THEN fn.Origin
    ELSE ""

\* getReceiverTypeName
RECURSIVE getReceiverTypeName(_)
getReceiverTypeName(t) ==
    CASE t.k = "Named" -> t.Name
      [] t.k = "Pointer" -> getReceiverTypeName(t.Elem)
      [] OTHER -> ""

\* buildSSAKey
buildSSAKey(fn) ==
    IF fn.Pkg = "" THEN ""
    ELSE LET pkgPath == fn.Pkg
             typeName == IF fn.Recv # NoRecv THEN getReceiverTypeName(fn.Recv) ELSE ""
         IN  IF typeName # ""
             THEN pkgPath \o "." \o typeName \o "." \o fn.Name
             ELSE pkgPath \o "." \o fn.Name

\* The body of findCrossPackageCalls' inner loop: the key one edge adds to
\* used, if any.
edgeKeys(edge, o, targets) ==
    LET fn == edge.Caller
        callee == edge.Callee
    IN  IF fn.Pkg = "" THEN {}
        ELSE LET callerPkg == normalizePkgPath(fn.Pkg, o)
                 calleePkg == getSSAPkgPath(callee)
             IN  IF calleePkg = "" \/ calleePkg \notin targets \/ callerPkg = calleePkg
                 THEN {}
                 ELSE LET key == buildSSAKey(callee)
                      IN  IF key # "" THEN {key} ELSE {}

\* findCrossPackageCalls: the keys it adds to used.
findCrossPackageCalls(o, res, targets) ==
    UNION { edgeKeys(e, o, targets) : e \in res.CallGraph }

\* collectTypeRefs and the functions it calls: the keys they add to used.
RECURSIVE collectTypeRefs(_, _, _)

collectAliasTypeRefs(tp, callerPkg, targets) ==
    (IF tp.Pkg # "" /\ tp.Pkg \in targets /\ callerPkg # tp.Pkg /\ IsExported(tp.Name)
     THEN {tp.Pkg \o "." \o tp.Name} ELSE {})
    \cup collectTypeRefs(tp.Rhs, callerPkg, targets)

collectNamedTypeRefs(tp, callerPkg, targets) ==
    (IF tp.Pkg # "" /\ tp.Pkg \in targets /\ callerPkg # tp.Pkg /\ IsExported(tp.Name)
     THEN {tp.Pkg \o "." \o tp.Name} ELSE {})
    \cup UNION { collectTypeRefs(tp.TypeArgs[i], callerPkg, targets) : i \in DOMAIN tp.TypeArgs }

collectSignatureTypeRefs(tp, callerPkg, targets) ==
    UNION { collectTypeRefs(tp.Params[i], callerPkg, targets) : i \in DOMAIN tp.Params }
    \cup UNION { collectTypeRefs(tp.Results[i], callerPkg, targets) : i \in DOMAIN tp.Results }

collectTypeRefs(t, callerPkg, targets) ==
    CASE t.k = "Alias" -> collectAliasTypeRefs(t, callerPkg, targets)
      [] t.k = "Named" -> collectNamedTypeRefs(t, callerPkg, targets)
      [] t.k \in {"Pointer", "Slice", "Array", "Chan"} ->
            collectTypeRefs(t.Elem, callerPkg, targets)
      [] t.k = "Map" ->
            collectTypeRefs(t.Key, callerPkg, targets)
                \cup collectTypeRefs(t.Elem, callerPkg, targets)
      [] t.k = "Signature" -> collectSignatureTypeRefs(t, callerPkg, targets)
      [] t.k = "Struct" ->
            UNION { collectTypeRefs(t.Fields[i], callerPkg, targets) : i \in DOMAIN t.Fields }
      [] t.k = "Interface" ->
            UNION { collectTypeRefs(t.Methods[i], callerPkg, targets) : i \in DOMAIN t.Methods }
      [] OTHER -> {}

\* The instructions collectTypeRefsFromFunc reads a type of.  Type is the
\* asserted type of a TypeAssert, the type of the operand X of a FieldAddr
\* or Field, and the type of the value otherwise.
ScannedOps ==
    {"TypeAssert", "Convert", "ChangeType", "Alloc", "MakeSlice", "MakeMap",
     "MakeChan", "FieldAddr", "Field"}

\* collectTypeRefsFromFunc
collectTypeRefsFromFunc(fn, callerPkg, targets) ==
    UNION { collectTypeRefs(fn.Params[i], callerPkg, targets) : i \in DOMAIN fn.Params }
    \cup UNION { collectTypeRefs(fn.Results[i], callerPkg, targets) : i \in DOMAIN fn.Results }
    \cup UNION { IF fn.Instrs[i].Op \in ScannedOps
                 THEN collectTypeRefs(fn.Instrs[i].Type, callerPkg, targets)
                 ELSE {} : i \in DOMAIN fn.Instrs }

\* findTypeRefsInReachable
findTypeRefsInReachable(o, res, targets) ==
    UNION { LET callerPkg == getSSAPkgPath(fn)
            IN  IF callerPkg = "" THEN {}
                ELSE collectTypeRefsFromFunc(fn, normalizePkgPath(callerPkg, o), targets)
            : fn \in res.Reachable }

\* findExternalUsageTypesInfo over the Uses tables of the target packages
\* alone.
findExternalUsageTypesInfoTargets(o, uses, targets) ==
    UNION { LET callerPkg == IF ~o.Test THEN TrimSuffix(u.From, "_test") ELSE u.From
                objPkg == u.Obj.Pkg
            IN  IF objPkg = "" \/ objPkg \notin targets THEN {}
                ELSE IF callerPkg # objPkg /\ IsExported(u.Obj.Name)
                THEN {objPkg \o "." \o u.Obj.Name}
                ELSE {}
            : u \in { x \in uses : x.From \in targets } }

\* findExternalUsageTypesInfo: uses is the TypesInfo.Uses of every loaded
\* package, an entry being the package and the object used (Pkg "" for an
\* object with no package).
findExternalUsageTypesInfo(o, uses, targets) ==
    UNION { LET callerPkg == IF ~o.Test THEN TrimSuffix(u.From, "_test") ELSE u.From
                objPkg == u.Obj.Pkg
            IN  IF objPkg = "" \/ objPkg \notin targets THEN {}
                ELSE IF callerPkg # objPkg /\ IsExported(u.Obj.Name)
                THEN {objPkg \o "." \o u.Obj.Name}
                ELSE {}
            : u \in uses }

\* markRuntimeTypes with an Iterate that visits no type.
markRuntimeTypesNone(res, targets) == {}

\* markRuntimeTypes
markRuntimeTypes(res, targets) ==
    UNION { IF t.k # "Named" \/ t.Pkg = "" THEN {}
            ELSE IF t.Pkg \in targets THEN {t.Pkg \o "." \o t.Name} ELSE {}
            : t \in res.RuntimeTypes }

----------------------------------------------------------------------------
(* overexported: the index of exports and the result *)

\* An entry of the exports map: the key and the Export stored under it.
\* addExport: nothing is added for a position in a file of c.generated.
addExport(c, name, kind, pos) ==
    IF pos.Filename \in c.generated THEN {}
    ELSE { <<c.pkgPath \o "." \o name,
             [Name |-> name, Kind |-> kind,
              Position |-> [File |-> pos.Filename, Line |-> pos.Line, Col |-> pos.Column],
              PkgPath |-> c.pkgPath]>> }

\* collectFunctionExport without the test of the name.
collectFunctionExportAnyName(c, fn) ==
    IF fn.Synthetic THEN {}
    ELSE addExport(c, fn.Name, "func", fn.Pos)

\* collectFunctionExport
collectFunctionExport(c, fn) ==
    IF ~IsExported(fn.Name) \/ fn.Synthetic THEN {}
    ELSE addExport(c, fn.Name, "func", fn.Pos)

\* prog.MethodSets.MethodSet of the type (ptr FALSE) or of the pointer to
\* it (ptr TRUE): the methods with a pointer receiver belong to the second
\* alone.
MethodSet(m, ptr) == { x \in m.Methods : ptr \/ ~x.PtrRecv }

\* collectMethodsFromMethodSet, given the entries added so far.
collectMethodsFromMethodSet(c, typeName, mset, sofar) ==
    UNION { IF ~IsExported(sel.Name) THEN {}
            ELSE IF sel.MethodValue = "nil" \/ sel.MethodValue = "synthetic" THEN {}
            ELSE LET methodName == typeName \o "." \o sel.Name
                     methodKey == c.pkgPath \o "." \o methodName
                 IN  IF \E e \in sofar : e[1] = methodKey THEN {}
                     ELSE addExport(c, methodName, "method", sel.Pos)
            : sel \in mset }

\* collectTypeExport that does not look at what addExport returns: the
\* methods are collected also when the type was not added.
collectTypeExportUnchecked(c, m) ==
    IF ~IsExported(m.Name) THEN {}
    ELSE LET own == addExport(c, m.Name, "type", m.Pos)
         IN  IF ~m.IsNamed THEN own
             ELSE LET first == collectMethodsFromMethodSet(c, m.Name, MethodSet(m, FALSE), own)
                      second == collectMethodsFromMethodSet(c, m.Name, MethodSet(m, TRUE),
                                                            own \cup first)
                  IN  own \cup first \cup second

\* collectTypeExport
collectTypeExport(c, m) ==
    IF ~IsExported(m.Name) THEN {}
    ELSE LET own == addExport(c, m.Name, "type", m.Pos)
         IN  IF own = {} THEN {}
             ELSE IF ~m.IsNamed THEN own
             ELSE LET first == collectMethodsFromMethodSet(c, m.Name, MethodSet(m, FALSE), own)
                      second == collectMethodsFromMethodSet(c, m.Name, MethodSet(m, TRUE),
                                                            own \cup first)
                  IN  own \cup first \cup second

\* collectGlobalExport
collectGlobalExport(c, g) ==
    IF ~IsExported(g.Name) THEN {} ELSE addExport(c, g.Name, "var", g.Pos)

\* collectConstExport
collectConstExport(c, cn) ==
    IF ~IsExported(cn.Name) THEN {} ELSE addExport(c, cn.Name, "const", cn.Pos)

\* collectPackageExports: the members of one package.  The keys of the
\* entries of one package differ, so the iteration order of the member map
\* does not show in the outcome.
collectPackageExports(c, members) ==
    UNION { CASE m.Kind = "func" -> collectFunctionExport(c, m)
              [] m.Kind = "type" -> collectTypeExport(c, m)
              [] m.Kind = "var" -> collectGlobalExport(c, m)
              [] m.Kind = "const" -> collectConstExport(c, m)
            : m \in members }

\* The order in which the loop of collectExportsSSA meets the packages.
PkgOrder == SortedKeys(AllPkgs)

\* The loop of collectExportsSSA over pkgs: st is [exports, generated],
\* exports as a set of entries.
RECURSIVE collectLoop(_, _, _, _)
collectLoop(o, pkgs, targets, st) ==
    IF pkgs = <<>> THEN st
    ELSE LET pkg == Head(pkgs)
         IN  IF pkg \notin targets THEN collectLoop(o, Tail(pkgs), targets, st)
             ELSE LET gen == st.generated \cup
                             { f \in Files : FilePkg(f) = pkg /\ IsGenerated(f) }
                      genMap == IF o.Generated THEN {} ELSE gen
                      c == [generated |-> genMap, pkgPath |-> pkg]
                      added == collectPackageExports(c, { m \in Members : m.Pkg = pkg })
                  IN  collectLoop(o, Tail(pkgs), targets,
                                  [exports |-> st.exports \cup added, generated |-> gen])

\* The map a set of entries stands for; the entries of the model have
\* distinct keys.
RECURSIVE EntryMap(_)
EntryMap(entries) ==
    IF entries = {} THEN <<>>
    ELSE LET e == CHOOSE x \in entries : TRUE
         IN  (e[1] :> e[2]) @@ EntryMap(entries \ {e})

\* collectExportsSSA for each value of opts.Generated and each set of
\* target packages, computed once: the triples of the two and the outcome.
collectExportsTable ==
    { <<gen, targets,
        LET st == collectLoop([Generated |-> gen], PkgOrder, targets,
                              [exports |-> {}, generated |-> {}])
        IN  [exports |-> EntryMap(st.exports), generated |-> st.generated]>> :
      gen \in BOOLEAN, targets \in SUBSET AllPkgs }

\* collectExportsSSA
collectExportsSSA(o, targets) ==
    (CHOOSE row \in collectExportsTable : row[1] = o.Generated /\ row[2] = targets)[3]

\* Every key the exports map may have, in one order.
KeyOrder ==
    SortedKeys(DOMAIN collectExportsSSA([Generated |-> TRUE], AllPkgs).exports)

\* number of places, after the first, at which a range over a map may start
MaxStart == 3

\* The orders in which a range over a map may give its keys: the iteration
\* starts at a place the runtime draws, so no order is promised.  The model
\* has the rotations of one order of the keys by at most MaxStart places.
MapOrders(keys) ==
    LET s == SelectFrom(KeyOrder, keys)
        n == Len(s)
        last == IF n - 1 < MaxStart THEN n - 1 ELSE MaxStart
    IN  IF n = 0 THEN {<<>>}
        ELSE { [i \in 1..n |-> s[((i + r - 1) % n) + 1]] : r \in 0..last }

\* The loop of buildResult without its test of externallyUsed.
RECURSIVE buildResultUsedToo(_, _, _, _, _, _)
buildResultUsedToo(o, order, exps, used, gen, re) ==
    IF order = <<>> THEN <<>>
    ELSE LET key == Head(order)
             exp == exps[key]
             rest == buildResultUsedToo(o, Tail(order), exps, used, gen, re)
         IN  IF ~o.Generated /\ exp.Position.File \in gen THEN rest
             ELSE IF re # NilRegexp /\ ~MatchString(re, exp.PkgPath) THEN rest
             ELSE IF Len(o.Exclude) > 0 /\ matchPackagePatterns(o.Exclude, exp.PkgPath)
             THEN rest
             ELSE <<exp>> \o rest

\* The loop of buildResult over the keys in the order given.
RECURSIVE buildResult(_, _, _, _, _, _)
buildResult(o, order, exps, used, gen, re) ==
    IF order = <<>> THEN <<>>
    ELSE LET key == Head(order)
             exp == exps[key]
             rest == buildResult(o, Tail(order), exps, used, gen, re)
         IN  IF key \in used THEN rest
             ELSE IF ~o.Generated /\ exp.Position.File \in gen THEN rest
             ELSE IF re # NilRegexp /\ ~MatchString(re, exp.PkgPath) THEN rest
             ELSE IF Len(o.Exclude) > 0 /\ matchPackagePatterns(o.Exclude, exp.PkgPath)
             THEN rest
             ELSE <<exp>> \o rest

----------------------------------------------------------------------------
(* overexported: the program analysed and the options *)

\* The type T of package p.
TP == Named("p", "T", <<>>)

\* The call-graph edges the program may have: the caller a function of q,
\* of p, of p_test, an instantiation of a generic function of q or a
\* synthetic wrapper; the callee a function or method of p, an
\* instantiation of the generic function G of p or of a method of the
\* generic type GT of p, or a function of p_test or q.
Caller(pkg, origin) == Function(pkg, origin, NoRecv, "h")

Edges ==
    { [Caller |-> c, Callee |-> fn] :
        c \in {Caller("q", ""), Caller("p", ""), Caller("p_test", ""), Caller("", "q")},
        fn \in {Function("p", "", NoRecv, "F"), Function("p", "", TP, "M")} }
    \cup
    { [Caller |-> c, Callee |-> fn] :
        c \in {Caller("q", ""), Caller("p", "")},
        fn \in {Function("", "p", NoRecv, "G[int]"), Function("p_test", "", NoRecv, "F")} }
    \cup
    { [Caller |-> Caller("p_test", ""), Callee |-> Function("p_test", "", NoRecv, "F")],
      [Caller |-> Caller("q", ""), Callee |-> Function("p", "", Pointer(TP), "P")],
      [Caller |-> Function("", "", NoRecv, "h$bound"), Callee |-> Function("p", "", NoRecv, "F")],
      [Caller |-> Caller("q", ""),
       Callee |-> Function("", "p", Named("p", "GT", <<Basic>>), "M")],
      [Caller |-> Caller("q", ""), Callee |-> Function("q", "", NoRecv, "F")],
      [Caller |-> Caller("q", ""), Callee |-> Function("p", "", NoRecv, "f")] }

\* What a reachable function may mention: parameter types, result types
\* and instructions.
Mentions ==
    { [Params |-> <<t>>, Results |-> <<>>, Instrs |-> <<>>] :
        t \in { TP,
                Signature(<<Named("p", "I", <<>>)>>, <<TP>>),
                Interface(<<Signature(<<TP>>, <<>>)>>),
                Named("q", "Box", <<TP>>),
                Named("p", "GT", <<Basic>>),
                Alias("p", "A", TP),
                Named("p", "t", <<>>) } }
    \cup
    { [Params |-> <<>>, Results |-> <<Pointer(TP)>>, Instrs |-> <<>>] }
    \cup
    { [Params |-> <<>>, Results |-> <<>>, Instrs |-> <<i>>] :
        i \in { [Op |-> "TypeAssert", Type |-> Named("p", "I", <<>>)],
                [Op |-> "Convert", Type |-> Slice(TP)],
                [Op |-> "ChangeType", Type |-> Array(TP)],
                [Op |-> "Alloc", Type |-> Pointer(Struct(<<TP>>))],
                [Op |-> "MakeSlice", Type |-> Slice(Pointer(TP))],
                [Op |-> "MakeMap", Type |-> Map(Named("p", "A", <<>>), TP)],
                [Op |-> "MakeChan", Type |-> Chan(TP)],
                [Op |-> "FieldAddr", Type |-> Pointer(TP)],
                [Op |-> "Field", Type |-> TP],
                [Op |-> "Call", Type |-> TP] } }

\* The function of the package (or origin package) that mentions m.
Mentioning(pkg, origin, m) ==
    [Pkg |-> pkg, Origin |-> origin, Recv |-> NoRecv, Name |-> "h",
     Params |-> m.Params, Results |-> m.Results, Instrs |-> m.Instrs]

\* The reachable functions the program may have.
ReachableFns ==
    { Mentioning("q", "", m) : m \in Mentions }
    \cup
    { Mentioning(c[1], c[2], [Params |-> <<TP>>, Results |-> <<>>, Instrs |-> <<>>]) :
        c \in {<<"p", "">>, <<"p_test", "">>, <<"", "q">>, <<"", "">>} }

\* A types.Object of a Uses table: the path of its package ("" for none),
\* its name, and what it is: a package-level object (Recv ""), or a method
\* or a field of the type Recv.
Object(pkg, name, recv, class) == [Pkg |-> pkg, Name |-> name, Recv |-> recv, Class |-> class]

\* The entries TypesInfo.Uses may have: the package of the file and the
\* object used.
UsesEntries ==
    { [From |-> "q", Obj |-> Object("p", n, "", "package")] :
        n \in {"F", "G", "V", "K", "T", "A", "GT", "GenF"} }
    \cup
    { [From |-> "q", Obj |-> Object("p", "M", "T", "method")],
      [From |-> "q", Obj |-> Object("p", "X", "T", "field")],
      [From |-> "q", Obj |-> Object("p", "F", "T", "field")],
      [From |-> "q", Obj |-> Object("", "error", "", "package")],
      [From |-> "q", Obj |-> Object("p_test", "F", "", "package")],
      [From |-> "p_test", Obj |-> Object("p", "F", "", "package")],
      [From |-> "p_test", Obj |-> Object("p", "T", "", "package")],
      [From |-> "p_test", Obj |-> Object("p", "M", "T", "method")],
      [From |-> "p_test", Obj |-> Object("p_test", "F", "", "package")],
      [From |-> "p", Obj |-> Object("p", "F", "", "package")],
      [From |-> "p", Obj |-> Object("p", "f", "", "package")],
      [From |-> "p", Obj |-> Object("p_test", "F", "", "package")] }

\* The types res.RuntimeTypes may hold.
RuntimeTypeChoices ==
    { TP, Pointer(TP), Named("p", "t", <<>>), Named("q", "Box", <<TP>>),
      Named("p", "GT", <<Basic>>), Named("", "error", <<>>) }

\* The modules of the packages: p and q each the root of a module of the
\* same path, p_test the external test package of p.
RootModules == [pkg \in AllPkgs |-> IF pkg = "p_test" THEN "p" ELSE pkg]

\* p_test an ordinary package, the root of a module of its own.
OwnModules == [pkg \in AllPkgs |-> pkg]

\* No package has a module (a build without modules).
NoModules == [pkg \in AllPkgs |-> ""]

\* number of call edges, reachable functions, uses or runtime types of the
\* analysed program
MaxFacts == 2

\* The programs: their declarations are Members; of references they have
\* at most MaxFacts call edges, or reachable functions, or uses, or runtime
\* types.  A program with no main package has nothing else of interest, nor
\* has one that packages.Load fails on (Load is the failure, "ok" for none).
Programs ==
    { [CallGraph |-> x, Reachable |-> {}, RuntimeTypes |-> {}, Uses |-> {},
       HasMain |-> TRUE, Modules |-> RootModules,
       Load |-> "ok"] : x \in SubsetsUpTo(Edges, MaxFacts) }
    \cup
    { [CallGraph |-> {}, Reachable |-> x, RuntimeTypes |-> {}, Uses |-> {},
       HasMain |-> TRUE, Modules |-> RootModules,
       Load |-> "ok"] : x \in SubsetsUpTo(ReachableFns, MaxFacts) }
    \cup
    { [CallGraph |-> {}, Reachable |-> {}, RuntimeTypes |-> x, Uses |-> {},
       HasMain |-> TRUE, Modules |-> RootModules,
       Load |-> "ok"] : x \in SubsetsUpTo(RuntimeTypeChoices, MaxFacts) }
    \cup
    { [CallGraph |-> {}, Reachable |-> {}, RuntimeTypes |-> {}, Uses |-> x,
       HasMain |-> TRUE, Modules |-> RootModules,
       Load |-> "ok"] : x \in SubsetsUpTo(UsesEntries, MaxFacts) }
    \cup
    { [CallGraph |-> {}, Reachable |-> {}, RuntimeTypes |-> {}, Uses |-> {},
       HasMain |-> FALSE, Modules |-> RootModules, Load |-> "ok"] }
    \cup
    { [CallGraph |-> {}, Reachable |-> {}, RuntimeTypes |-> {}, Uses |-> {},
       HasMain |-> TRUE, Modules |-> m, Load |-> "ok"] : m \in {OwnModules, NoModules} }
    \cup
    { [CallGraph |-> {}, Reachable |-> {}, RuntimeTypes |-> {}, Uses |-> {},
       HasMain |-> TRUE, Modules |-> RootModules, Load |-> l] :
         l \in {"load packages", "packages contain errors"} }

\* The package patterns with the filter and the exclude patterns: all
\* packages, p alone, a pattern no package matches, a filter, an exclusion.
Scopes ==
    { [patterns |-> <<"./...">>, Filter |-> "", Exclude |-> <<>>],
      [patterns |-> <<"p">>, Filter |-> "", Exclude |-> <<>>],
      [patterns |-> <<"x">>, Filter |-> "", Exclude |-> <<>>],
      [patterns |-> <<"./...">>, Filter |-> "^p$", Exclude |-> <<>>],
      [patterns |-> <<"./...">>, Filter |-> "", Exclude |-> <<"q/...">>] }

\* The scopes the model runs with Test set as well.
TestScopes == { sc \in Scopes : sc.Filter = "" /\ sc.Exclude = <<>> /\ sc.patterns # <<"x">> }

----------------------------------------------------------------------------
(* overexported: Run *)

\* deadcode is not running.
DeadcodeIdle ==
    /\ cfg = <<>>
    /\ funcs = <<>>
    /\ sourceFuncs = <<>>
    /\ Reachable = {}
    /\ reachablePosn = {}
    /\ byPkgPath = <<>>
    /\ jsonPkgs = <<>>
    /\ roots = <<>>
    /\ CallGraph = <<>>
    /\ worklist = {}
    /\ RuntimeTypes = {}
    /\ sites = {}
    /\ pathTargets = {}
    /\ pathResult = <<>>

InitOverexported ==
    /\ pc = "run"
    /\ \E sc \in Scopes, test \in BOOLEAN, gen \in BOOLEAN :
         /\ test => sc \in TestScopes
         /\ patterns = sc.patterns
         /\ opts = [Test |-> test, Generated |-> gen, Filter |-> sc.Filter,
                    Exclude |-> sc.Exclude]
    /\ prog \in Programs
    /\ filter = NilRegexp
    /\ generated = {}
    /\ targetPaths = {}
    /\ exports = <<>>
    /\ externallyUsed = {}
    /\ result = <<>>
    /\ err = ""
    /\ DeadcodeIdle
    /\ NoCommand

\* Run up to the SSA program: loadPackages, buildTargetPaths and
\* buildFilterPattern, with the errors of the first and the last.
RunLoad ==
    /\ pc = "run"
    /\ IF prog.Load # "ok"
       THEN /\ err' = prog.Load
            /\ pc' = "return"
            /\ UNCHANGED <<targetPaths, filter>>
       ELSE IF opts.Filter \notin {"", "<module>"} /\ ~CompileOk(opts.Filter)
       THEN /\ targetPaths' = buildTargetPaths(AllPkgs, patterns, needsTargetMatching(patterns))
            /\ err' = "invalid filter pattern"
            /\ pc' = "return"
            /\ UNCHANGED filter
       ELSE /\ targetPaths' = buildTargetPaths(AllPkgs, patterns, needsTargetMatching(patterns))
            /\ filter' = exBuildFilterPattern(opts, prog.Modules)
            /\ pc' = "collect"
            /\ UNCHANGED err
    /\ UNCHANGED <<generated, dcVars, ioVars, patterns, opts, prog, exports, externallyUsed, result>>

\* collectExportsSSA, and Run's return of an empty Result when there is no
\* export.
RunCollectExports ==
    /\ pc = "collect"
    /\ LET st == collectExportsSSA(opts, targetPaths)
       IN  /\ exports' = st.exports
           /\ generated' = st.generated
           /\ pc' = IF DOMAIN st.exports = {} THEN "return" ELSE "roots"
    /\ UNCHANGED <<filter, dcVars, ioVars, patterns, opts, prog, targetPaths, externallyUsed, result, err>>

\* findEntryPoints and rta.Analyze: an error when there is no main package.
RunFindEntryPoints ==
    /\ pc = "roots"
    /\ IF prog.HasMain
       THEN pc' = "usage" /\ err' = err
       ELSE pc' = "return" /\ err' = "no main packages found"
    /\ UNCHANGED <<filter, generated, dcVars, ioVars, patterns, opts, prog, targetPaths, exports,
                   externallyUsed, result>>

\* findExternalUsage: the keys findCrossPackageCalls,
\* findTypeRefsInReachable and findExternalUsageTypesInfo add to used.
findExternalUsage(o, res, uses, targets) ==
    findCrossPackageCalls(o, res, targets)
        \cup findTypeRefsInReachable(o, res, targets)
        \cup findExternalUsageTypesInfo(o, uses, targets)

RunFindExternalUsage ==
    /\ pc = "usage"
    /\ externallyUsed' = findExternalUsage(opts, prog, prog.Uses, targetPaths)
    /\ pc' = "runtime"
    /\ UNCHANGED <<filter, generated, dcVars, ioVars, patterns, opts, prog, targetPaths, exports,
                   result, err>>

\* markRuntimeTypes
RunRuntimeTypes ==
    /\ pc = "runtime"
    /\ externallyUsed' = externallyUsed \cup markRuntimeTypes(prog, targetPaths)
    /\ pc' = "result"
    /\ UNCHANGED <<filter, generated, dcVars, ioVars, patterns, opts, prog, targetPaths, exports,
                   result, err>>

\* buildResult, the range over exports in one of its orders.
RunBuildResult ==
    /\ pc = "result"
    /\ \E order \in MapOrders(DOMAIN exports) :
         result' = buildResult(opts, order, exports, externallyUsed, generated, filter)
    /\ pc' = "return"
    /\ UNCHANGED <<filter, generated, dcVars, ioVars, patterns, opts, prog, targetPaths, exports,
                   externallyUsed, err>>

NextOverexported ==
    \/ RunLoad
    \/ RunCollectExports
    \/ RunFindEntryPoints
    \/ RunFindExternalUsage
    \/ RunRuntimeTypes
    \/ RunBuildResult

SpecOverexported == InitOverexported /\ [][NextOverexported]_vars

\* The lists of exclude patterns of the runs that differ in them alone.
ExcludeLists ==
    { <<"p">>, <<"p/...">>, <<"p_test/...">>, <<"/...">>, <<"...">>, <<"./...">>,
      <<"x">>, <<"x/...">>, <<"x", "q">>, <<"q", "p_test">> }

\* The programs whose only references are uses.
UsesPrograms ==
    { pr \in Programs : pr.CallGraph = {} /\ pr.Reachable = {} /\ pr.RuntimeTypes = {} }

\* Run on every package, with no filter and a list of exclude patterns.
InitExclude ==
    /\ pc = "run"
    /\ patterns = <<"./...">>
    /\ \E ex \in ExcludeLists, gen \in BOOLEAN :
         opts = [Test |-> FALSE, Generated |-> gen, Filter |-> "", Exclude |-> ex]
    /\ prog \in UsesPrograms
    /\ filter = NilRegexp
    /\ generated = {}
    /\ targetPaths = {}
    /\ exports = <<>>
    /\ externallyUsed = {}
    /\ result = <<>>
    /\ err = ""
    /\ DeadcodeIdle
    /\ NoCommand

SpecExclude == InitExclude /\ [][NextOverexported]_vars

\* The values of Options.Filter: none, an expression, the modules of the
\* loaded packages.
FilterFlags == {"", "^p$", "<module>"}

\* Run on every package, with a filter and no exclude pattern.
InitFilter ==
    /\ pc = "run"
    /\ patterns = <<"./...">>
    /\ \E f \in FilterFlags, gen \in BOOLEAN :
         opts = [Test |-> FALSE, Generated |-> gen, Filter |-> f, Exclude |-> <<>>]
    /\ prog \in UsesPrograms
    /\ filter = NilRegexp
    /\ generated = {}
    /\ targetPaths = {}
    /\ exports = <<>>
    /\ externallyUsed = {}
    /\ result = <<>>
    /\ err = ""
    /\ DeadcodeIdle
    /\ NoCommand

SpecFilter == InitFilter /\ [][NextOverexported]_vars

----------------------------------------------------------------------------
(* overexported: the command *)

\* The exports of the sequence that belong to the package, in its order.
RECURSIVE pkgExports(_, _)
pkgExports(exps, pkg) ==
    IF exps = <<>> THEN <<>>
    ELSE IF Head(exps).PkgPath = pkg THEN <<Head(exps)>> \o pkgExports(Tail(exps), pkg)
    ELSE pkgExports(Tail(exps), pkg)

\* slices.SortFunc by strings.Compare of the names.  The exports of one
\* package have distinct names, so the order of equal names, which
\* SortFunc does not promise, never matters.
RECURSIVE SortByName(_)
SortByName(exps) ==
    IF exps = <<>> THEN <<>>
    ELSE LET i == CHOOSE j \in DOMAIN exps :
                    \A k \in DOMAIN exps : ~StrLess(exps[k].Name, exps[j].Name)
         IN  <<exps[i]>> \o SortByName(SubSeq(exps, 1, i - 1) \o SubSeq(exps, i + 1, Len(exps)))

\* The line printResult writes for an export.  filepath.Rel(cwd, file): the
\* files of the model are named relative to the working directory.
exportLine(exp) ==
    [Line |-> "export", PkgPath |-> exp.PkgPath, Name |-> exp.Name, Kind |-> exp.Kind,
     File |-> exp.Position.File, LineNo |-> exp.Position.Line]

RECURSIVE exportLines(_)
exportLines(exps) ==
    IF exps = <<>> THEN <<>>
    ELSE <<exportLine(Head(exps))>> \o exportLines(Tail(exps))

\* printResult, "for _, pkg := range pkgs": the heading of each package
\* and its exports sorted by name.
RECURSIVE printPackages(_, _)
printPackages(pkgs, exps) ==
    IF pkgs = <<>> THEN <<>>
    ELSE <<[Line |-> "package", PkgPath |-> Head(pkgs)]>>
             \o exportLines(SortByName(pkgExports(exps, Head(pkgs))))
             \o printPackages(Tail(pkgs), exps)

\* printResult: the lines of the text output.
printResult(exps) ==
    IF Len(exps) = 0 THEN <<[Line |-> "No over-exported identifiers found."]>>
    ELSE printPackages(SortedKeys({ exps[i].PkgPath : i \in DOMAIN exps }), exps)

\* printResultJSON: Result.Exports encoded as it is, one object an export.
RECURSIVE printResultJSON(_)
printResultJSON(exps) ==
    IF exps = <<>> THEN <<>>
    ELSE <<[Line |-> "json", PkgPath |-> Head(exps).PkgPath, Name |-> Head(exps).Name,
            Kind |-> Head(exps).Kind, File |-> Head(exps).Position.File,
            LineNo |-> Head(exps).Position.Line]>>
         \o printResultJSON(Tail(exps))

\* The command lines of overexported: Malformed for flags kong rejects,
\* Packages the positional arguments, the rest the flags.
OverexportedCommands ==
    { [Malformed |-> FALSE, Packages |-> <<"./...">>, JSON |-> j, Test |-> FALSE,
       Generated |-> g, Filter |-> f, Exclude |-> <<>>] :
         j \in BOOLEAN, g \in BOOLEAN, f \in {"", "<module>"} }
    \cup
    { [Malformed |-> m, Packages |-> pk, JSON |-> j, Test |-> FALSE,
       Generated |-> FALSE, Filter |-> f, Exclude |-> <<>>] :
         j \in BOOLEAN,
         m \in BOOLEAN,
         pk \in {<<>>, <<"x">>},
         f \in {"<module>", "["} }

\* The programs with at most one reference.
CommandPrograms ==
    { pr \in Programs :
        Cardinality(pr.CallGraph) + Cardinality(pr.Reachable)
            + Cardinality(pr.RuntimeTypes) + Cardinality(pr.Uses) <= 1 }

InitOverexportedCommand ==
    /\ pc = "main"
    /\ args \in OverexportedCommands
    /\ prog \in CommandPrograms
    /\ patterns = <<>>
    /\ opts = <<>>
    /\ filter = NilRegexp
    /\ generated = {}
    /\ targetPaths = {}
    /\ exports = <<>>
    /\ externallyUsed = {}
    /\ result = <<>>
    /\ err = ""
    /\ stdout = <<>>
    /\ stderr = ""
    /\ exitCode = -1
    /\ DeadcodeIdle

\* main and run of the command up to the call of overexported.Run: kong
\* parses the command line; an error of it is printed and the exit code
\* is 1.
OverexportedParse ==
    /\ pc = "main"
    /\ IF args.Malformed \/ Len(args.Packages) = 0
       THEN /\ stderr' = "parse"
            /\ exitCode' = 1
            /\ pc' = "exit"
            /\ UNCHANGED <<patterns, opts>>
       ELSE /\ patterns' = args.Packages
            /\ opts' = [Test |-> args.Test, Generated |-> args.Generated,
                        Filter |-> args.Filter, Exclude |-> args.Exclude]
            /\ pc' = "run"
            /\ UNCHANGED <<stderr, exitCode>>
    /\ UNCHANGED <<filter, generated, dcVars, args, stdout, prog, targetPaths, exports,
                   externallyUsed, result, err>>

\* run of the command after overexported.Run, and main: the error is
\* printed and the exit code is 1, or the result is printed.
OverexportedPrint ==
    /\ pc = "return"
    /\ args # <<>>
    /\ IF err # ""
       THEN /\ stderr' = err
            /\ exitCode' = 1
            /\ UNCHANGED stdout
       ELSE /\ stdout' = IF args.JSON THEN printResultJSON(result) ELSE printResult(result)
            /\ exitCode' = 0
            /\ UNCHANGED stderr
    /\ pc' = "exit"
    /\ UNCHANGED <<filter, generated, dcVars, ovVars, args>>

NextOverexportedCommand ==
    \/ OverexportedParse
    \/ RunLoad
    \/ RunCollectExports
    \/ RunFindEntryPoints
    \/ RunFindExternalUsage
    \/ RunRuntimeTypes
    \/ RunBuildResult
    \/ OverexportedPrint

SpecOverexportedCommand == InitOverexportedCommand /\ [][NextOverexportedCommand]_vars

----------------------------------------------------------------------------
(* deadcode: the command *)

\* An IR function of the program the command analyses: the fields
\* isMarkerMethod reads, and the package path, the receiver's type name and
\* whether the package imports "testing".
CommandFn(pkg, recv, name, pos, source) ==
    [Pos |-> pos, Source |-> source, Name |-> name, Recv |-> recv # "",
     Params |-> FALSE, Results |-> FALSE, Body |-> "stmts", Implements |-> FALSE,
     Pkg |-> pkg, RecvName |-> recv, Testing |-> FALSE]

\* The program of the command: q is the main package, with its synthetic
\* initializer and main; p declares F, the method M of T and, in a
\* generated file, G.
CommandFuncs ==
    << CommandFn("q", "", "init", NoPosition, FALSE),
       CommandFn("q", "", "main", Posn("q/b.go", 1), TRUE),
       CommandFn("p", "", "F", Posn("p/a.go", 1), TRUE),
       CommandFn("p", "T", "M", Posn("p/a.go", 2), TRUE),
       CommandFn("p", "", "G", Posn("p/g.go", 1), TRUE) >>

\* What packages.Load and ssautil.MainPackages give for the arguments: the
\* outcome of the load, the main packages and the module path of each
\* package.
DeadcodePrograms ==
    { [Load |-> l, Mains |-> m, Modules |-> OwnModules] :
        l \in {"ok"}, m \in {<<"q">>, <<>>} }
    \cup
    { [Load |-> l, Mains |-> <<"q">>, Modules |-> OwnModules] :
        l \in {"load", "no packages", "packages contain errors"} }

\* prettyName, for the functions that are not anonymous.
prettyName(fn, qualified) ==
    LET pkg == IF qualified /\ fn.Pkg # "" THEN fn.Pkg \o "." ELSE ""
        recv == IF fn.Recv THEN fn.RecvName \o "." ELSE ""
    IN  pkg \o recv \o fn.Name

\* template.New("deadcode").Parse(format) returns no error: "{{" is a
\* template it rejects.  The templates of the model execute on every record.
TemplateOk(format) == format # "{{"

\* buildFilterPattern, deadcode: the expression of the flag, or the one of
\* the module paths; the empty expression matches every path.
dcBuildFilterPattern(filterFlag, initial) ==
    IF filterFlag = "<module>"
    THEN IF ModulePaths(initial) = {} THEN AllPkgs
         ELSE CompileModules(ModulePaths(initial))
    ELSE IF filterFlag = "" THEN AllPkgs
    ELSE Compile(filterFlag)

\* The command lines of deadcode.  Malformed: flag.Parse rejects the flags.
DeadcodeCommands ==
    { [Malformed |-> FALSE, Packages |-> <<"./...">>, Test |-> FALSE, Generated |-> g,
       Filter |-> "<module>", WhyLive |-> w, Format |-> "", JSON |-> j] :
         g \in {FALSE}, j \in BOOLEAN,
         w \in {"", "q.main", "q.init", "p.F", "p.T.M", "p.G", "p.X"} }
    \cup
    { [Malformed |-> m, Packages |-> pk, Test |-> FALSE, Generated |-> TRUE,
       Filter |-> f, WhyLive |-> "", Format |-> fm, JSON |-> j] :
         m \in BOOLEAN, pk \in {<<>>, <<"./...">>}, f \in {"", "["},
         fm \in {"", "{{.}}", "{{"}, j \in BOOLEAN }

InitDeadcodeCommand ==
    /\ pc = "main"
    /\ args \in DeadcodeCommands
    /\ prog \in DeadcodePrograms
    /\ funcs = CommandFuncs
    /\ cfg = <<>>
    /\ filter = NilRegexp
    /\ sourceFuncs = <<>>
    /\ generated = {}
    /\ Reachable = {}
    /\ reachablePosn = {}
    /\ byPkgPath = <<>>
    /\ jsonPkgs = <<>>
    /\ roots = <<>>
    /\ CallGraph = <<>>
    /\ worklist = {}
    /\ RuntimeTypes = {}
    /\ sites = {}
    /\ pathTargets = {}
    /\ pathResult = <<>>
    /\ patterns = <<>>
    /\ opts = <<>>
    /\ targetPaths = {}
    /\ exports = <<>>
    /\ externallyUsed = {}
    /\ result = <<>>
    /\ err = ""
    /\ stdout = <<>>
    /\ stderr = ""
    /\ exitCode = -1

\* main and parseFlags: flag.Parse leaves with the code 2 when the flags
\* are malformed, and so does main when there is no argument.
DeadcodeParse ==
    /\ pc = "main"
    /\ IF args.Malformed \/ Len(args.Packages) = 0
       THEN /\ stderr' = "usage"
            /\ exitCode' = 2
            /\ pc' = "exit"
            /\ UNCHANGED cfg
       ELSE /\ cfg' = [test |-> args.Test, filter |-> args.Filter,
                       generated |-> args.Generated, whyLive |-> args.WhyLive,
                       format |-> args.Format, json |-> args.JSON, args |-> args.Packages]
            /\ pc' = "run"
            /\ UNCHANGED <<stderr, exitCode>>
    /\ UNCHANGED <<filter, generated, funcs, sourceFuncs, Reachable, reachablePosn, byPkgPath,
                   jsonPkgs, roots, CallGraph, rtaVars, searchVars, ovVars, args, stdout>>

\* The error run stops at before the analysis, "" when there is none.
runError ==
    IF cfg.format # "" /\ cfg.json THEN "you cannot specify both -f=template and -json"
    ELSE IF cfg.format # "" /\ ~TemplateOk(cfg.format) THEN "invalid -f"
    ELSE IF prog.Load = "load" THEN "load"
    ELSE IF prog.Load = "no packages" THEN "no packages"
    ELSE IF prog.Load = "packages contain errors" THEN "packages contain errors"
    ELSE IF cfg.filter \notin {"", "<module>"} /\ ~CompileOk(cfg.filter) THEN "-filter"
    ELSE IF Len(prog.Mains) = 0 THEN "no main packages"
    ELSE ""

\* mainPkg.Func(name)
PkgFunc(pkg, name) ==
    CHOOSE f \in DOMAIN funcs : funcs[f].Pkg = pkg /\ funcs[f].Name = name

\* "for _, mainPkg := range mains": init and main of each main package.
RECURSIVE mainRoots(_)
mainRoots(mains) ==
    IF mains = <<>> THEN <<>>
    ELSE <<PkgFunc(Head(mains), "init"), PkgFunc(Head(mains), "main")>>
             \o mainRoots(Tail(mains))

\* run up to the roots: the output options are checked, the packages
\* loaded, the filter compiled and the main packages found.  main prints an
\* error of run and leaves with the code 1.
DeadcodeLoad ==
    /\ pc = "run"
    /\ IF runError # ""
       THEN /\ stderr' = runError
            /\ exitCode' = 1
            /\ pc' = "exit"
            /\ UNCHANGED <<filter, roots>>
       ELSE /\ filter' = dcBuildFilterPattern(cfg.filter, prog.Modules)
            /\ roots' = mainRoots(prog.Mains)
            /\ pc' = "start"
            /\ UNCHANGED <<stderr, exitCode>>
    /\ UNCHANGED <<cfg, generated, funcs, sourceFuncs, Reachable, reachablePosn, byPkgPath,
                   jsonPkgs, CallGraph, rtaVars, searchVars, ovVars, args, stdout>>

\* A callgraph.Edge: the functions of its two nodes, whether its site is a
\* call with a static callee, and the line of the site.
CallEdge(caller, callee, static, line) ==
    [Caller |-> caller, Callee |-> callee, Static |-> static, Line |-> line]

\* The calls the program may hold, in the order rta meets them: main calls
\* F, main calls M through an interface, F calls M, init calls G, G calls F
\* through a function value, init calls main.
CallEdges ==
    << CallEdge(2, 3, TRUE, 2), CallEdge(2, 4, FALSE, 3), CallEdge(3, 4, TRUE, 4),
       CallEdge(1, 5, TRUE, 5), CallEdge(5, 3, FALSE, 6), CallEdge(1, 2, TRUE, 7) >>

\* The functions some chain of the edges E leads to from those of start.
RECURSIVE ReachedFrom(_, _)
ReachedFrom(start, E) ==
    LET next == start \cup { e.Callee : e \in { x \in E : x.Caller \in start } }
    IN  IF next = start THEN start ELSE ReachedFrom(next, E)

\* The result of rta.Analyze for the calls E and the functions refl that
\* a runtime type makes reachable by reflection: the reachable functions,
\* and the call graph, which has a node for roots[0] and for every end of
\* an edge, the edges out of a node in the order they were added.
rtaResult(E, refl) ==
    LET nodes == {roots[1]} \cup { e.Caller : e \in E } \cup { e.Callee : e \in E }
    IN  [Reachable |-> ReachedFrom({ roots[i] : i \in DOMAIN roots } \cup refl, E),
         CallGraph |-> [Nodes |-> nodes,
                        Out |-> [n \in nodes |->
                                   SelectSeq(CallEdges, LAMBDA e : e \in E /\ e.Caller = n)]]]

\* The results rta.Analyze may give: it adds the edges of the calls of
\* reachable functions only; M, an exported method, is the one function a
\* runtime type may make reachable with no call.
rtaResults ==
    { rtaResult(E, refl) :
        E \in { X \in SUBSET { CallEdges[i] : i \in DOMAIN CallEdges } :
                  \A e \in X : e.Caller \in ReachedFrom({ roots[i] : i \in DOMAIN roots }, X) },
        refl \in {{}, {4}} }

\* res := rta.Analyze(roots, cfg.whyLive != ""), on the program of the
\* command: the call graph is built for -whylive only.
AnalyzeRTA ==
    /\ pc = "analyze"
    /\ \E res \in rtaResults :
         /\ Reachable' = res.Reachable
         /\ CallGraph' = IF cfg.whyLive # "" THEN res.CallGraph ELSE <<>>
    /\ pc' = "posn"
    /\ UNCHANGED <<cfg, filter, funcs, sourceFuncs, generated, reachablePosn, byPkgPath, jsonPkgs,
                   roots, rtaVars, searchVars, ovVars, ioVars>>

\* isStaticCall
isStaticCall(edge) == edge.Static

\* The comparison without its test of the names.
rootLessTestsOnly(x, y) ==
    IF x.Testing # y.Testing THEN ~x.Testing
    ELSE FALSE

\* The comparison of pathSearch's sort.Slice: functions of packages that
\* do not import "testing" first, and among equals main before init.
rootLess(x, y) ==
    IF x.Testing # y.Testing THEN ~x.Testing
    ELSE IF (x.Name = "init") # (y.Name = "init") THEN x.Name # "init"
    ELSE FALSE

\* The outcomes of sort.Slice(roots, ...): the sort is not stable.
sortedRoots(rs) ==
    { s \in Orderings({ rs[i] : i \in DOMAIN rs }) :
        \A i, j \in DOMAIN s : i < j => ~rootLess(funcs[s[j]], funcs[s[i]]) }

\* seen[node] of the node reached through no edge.
NilEdge == CallEdge(0, 0, FALSE, 0)

\* The walk back from node without the slices.Reverse at its end: the edges
\* from node to the root.
RECURSIVE walkBackUnreversed(_, _)
walkBackUnreversed(node, seen) ==
    LET edge == seen[node]
    IN  IF edge = NilEdge THEN <<>>
        ELSE <<edge>> \o walkBackUnreversed(edge.Caller, seen)

\* "for { edge := seen[node] ... }": the edges from the root to node.
RECURSIVE walkBack(_, _)
walkBack(node, seen) ==
    LET edge == seen[node]
    IN  IF edge = NilEdge THEN <<>>
        ELSE walkBack(edge.Caller, seen) \o <<edge>>

\* "for _, edge := range node.Out": st is [queue, seen].
RECURSIVE visitOut(_, _, _)
visitOut(out, st, allowDynamic) ==
    IF out = <<>> THEN st
    ELSE LET edge == Head(out)
         IN  IF (allowDynamic \/ isStaticCall(edge)) /\ edge.Callee \notin DOMAIN st.seen
             THEN visitOut(Tail(out),
                           [queue |-> Append(st.queue, edge.Callee),
                            seen |-> (edge.Callee :> edge) @@ st.seen],
                           allowDynamic)
             ELSE visitOut(Tail(out), st, allowDynamic)

\* The loop "for len(queue) > 0" of bfs: found, with the path, at the
\* first node of the queue that is a target.
RECURSIVE bfsLoop(_, _, _, _, _)
bfsLoop(queue, seen, graph, targets, allowDynamic) ==
    IF queue = <<>> THEN [found |-> FALSE, path |-> <<>>, seen |-> seen]
    ELSE LET node == Head(queue)
         IN  IF node \in targets
             THEN [found |-> TRUE, path |-> walkBack(node, seen), seen |-> seen]
             ELSE LET st == visitOut(graph.Out[node],
                                     [queue |-> Tail(queue), seen |-> seen], allowDynamic)
                  IN  bfsLoop(st.queue, st.seen, graph, targets, allowDynamic)

\* search that ends at a root with no node instead of passing over it.
RECURSIVE searchUntilMissing(_, _, _, _, _)
searchUntilMissing(rs, seen, graph, targets, allowDynamic) ==
    IF rs = <<>> THEN [root |-> 0, found |-> FALSE, path |-> <<>>]
    ELSE LET rootFn == Head(rs)
         IN  IF rootFn \notin graph.Nodes
             THEN [root |-> 0, found |-> FALSE, path |-> <<>>]
             ELSE LET r == bfsLoop(<<rootFn>>, (rootFn :> NilEdge) @@ seen, graph,
                                   targets, allowDynamic)
                  IN  IF r.found
                      THEN [root |-> rootFn, found |-> TRUE, path |-> r.path]
                      ELSE searchUntilMissing(Tail(rs), r.seen, graph, targets, allowDynamic)

\* search, "for _, rootFn := range roots": a root with no node is passed
\* over; seen is shared by the searches from the roots.
RECURSIVE search(_, _, _, _, _)
search(rs, seen, graph, targets, allowDynamic) ==
    IF rs = <<>> THEN [root |-> 0, found |-> FALSE, path |-> <<>>]
    ELSE LET rootFn == Head(rs)
         IN  IF rootFn \notin graph.Nodes
             THEN search(Tail(rs), seen, graph, targets, allowDynamic)
             ELSE LET r == bfsLoop(<<rootFn>>, (rootFn :> NilEdge) @@ seen, graph,
                                   targets, allowDynamic)
                  IN  IF r.found
                      THEN [root |-> rootFn, found |-> TRUE, path |-> r.path]
                      ELSE search(Tail(rs), r.seen, graph, targets, allowDynamic)

\* pathSearch that follows the dynamic edges from the start.
pathSearchDynamic(rs, graph, targets) == search(rs, <<>>, graph, targets, TRUE)

\* pathSearch after the sort: the static edges alone, then all the edges.
pathSearch(rs, graph, targets) ==
    LET static == search(rs, <<>>, graph, targets, FALSE)
    IN  IF static.found THEN static
        ELSE search(rs, <<>>, graph, targets, TRUE)

\* "for _, edge := range path": the jsonEdge records.
jsonEdges(path) ==
    [i \in DOMAIN path |->
        [Initial |-> IF i = 1 THEN prettyName(funcs[path[i].Caller], TRUE) ELSE "",
         Kind |-> IF isStaticCall(path[i]) THEN "static" ELSE "dynamic",
         Position |-> path[i].Line,
         Callee |-> prettyName(funcs[path[i].Callee], TRUE)]]

\* printObjects: one JSON document with -json, one text per object
\* without.
printObjects(objects) ==
    IF cfg.json THEN <<[Line |-> "document", Objects |-> objects]>>
    ELSE [i \in DOMAIN objects |-> [Line |-> "object", Object |-> objects[i]]]

\* handleWhyLive, "for _, fn := range sourceFuncs": the functions named
\* cfg.whyLive.
whyLiveTargets == { f \in DOMAIN funcs :
                      \E i \in DOMAIN sourceFuncs : sourceFuncs[i] = f
                         /\ prettyName(funcs[f], TRUE) = cfg.whyLive }

\* handleWhyLive, then main: the four errors leave with the code 1, the
\* path is printed.
handleWhyLive ==
    /\ pc = "group"
    /\ cfg.whyLive # ""
    /\ LET targets == whyLiveTargets
           live == { f \in targets : funcs[f].Pos \in reachablePosn }
       IN  IF targets = {}
           THEN /\ stderr' = "not found in program"
                /\ exitCode' = 1
                /\ UNCHANGED <<stdout, roots>>
           ELSE IF live = {}
           THEN /\ stderr' = "is dead code"
                /\ exitCode' = 1
                /\ UNCHANGED <<stdout, roots>>
           ELSE \E sorted \in sortedRoots(roots) :
                  LET found == pathSearch(sorted, CallGraph, live)
                  IN  /\ roots' = sorted
                      /\ IF ~found.found
                         THEN /\ stderr' = "is reachable only through reflection"
                              /\ exitCode' = 1
                              /\ UNCHANGED stdout
                         ELSE IF Len(found.path) = 0
                         THEN /\ stderr' = "is a root"
                              /\ exitCode' = 1
                              /\ UNCHANGED stdout
                         ELSE /\ stdout' = printObjects(jsonEdges(found.path))
                              /\ exitCode' = 0
                              /\ UNCHANGED stderr
    /\ pc' = "exit"
    /\ UNCHANGED <<cfg, filter, funcs, sourceFuncs, generated, Reachable, reachablePosn,
                   byPkgPath, jsonPkgs, CallGraph, rtaVars, searchVars, ovVars, args>>

\* The end of run and of main: the records are printed and the code is 0.
DeadcodePrint ==
    /\ pc = "done"
    /\ args # <<>>
    /\ stdout' = printObjects(jsonPkgs)
    /\ exitCode' = 0
    /\ pc' = "exit"
    /\ UNCHANGED <<filter, generated, dcVars, ovVars, args, stderr>>

NextDeadcodeCommand ==
    \/ DeadcodeParse
    \/ DeadcodeLoad
    \/ gatherSourceInfo
    \/ AnalyzeRTA
    \/ markReachablePosn
    \/ handleWhyLive
    \/ groupUnreachable
    \/ buildJSONPackages
    \/ DeadcodePrint

SpecDeadcodeCommand == InitDeadcodeCommand /\ [][NextDeadcodeCommand]_vars

----------------------------------------------------------------------------
(* The RTA engine *)

\* number of instructions in the bodies of the program the engine analyses
MaxInstr == 3

\* The instructions of a body that the engine looks at: a call with a
\* static callee, a dynamic call of the method of an interface, and a
\* concrete type made live (allocated, or converted into an interface).
StaticCall(callee) == [op |-> "call", callee |-> callee, method |-> "", type |-> ""]

DynamicCall(method) == [op |-> "invoke", callee |-> 0, method |-> method, type |-> ""]

MakeLive(type) == [op |-> "make", callee |-> 0, method |-> "", type |-> type]

\* The functions of the analysed program: 1 is main, 2 the method N of U,
\* 3 the method M of T, 4 the method M of U.
RTAFns == 1..4

\* The method sets of the concrete types: the function of each method.
MethodSets ==
    [T |-> [M |-> 3], U |-> [M |-> 4, N |-> 2]]

ConcreteTypes == DOMAIN MethodSets

\* The method set of the type matches a dynamic call of the method.
Matches(type, method) == method \in DOMAIN MethodSets[type]

Instructions ==
    {StaticCall(2), StaticCall(3), DynamicCall("M"), DynamicCall("N"),
     MakeLive("T"), MakeLive("U")}

\* The programs: at most MaxInstr instructions in the bodies of the
\* functions.
IRPrograms ==
    { [f \in RTAFns |-> { p[2] : p \in { x \in P : x[1] = f } }] :
        P \in SubsetsUpTo(RTAFns \X Instructions, MaxInstr) }

\* The methods the dynamic calls dispatch to on the live types.
dispatched(calls, types) ==
    UNION { { MethodSets[t][c.method] : t \in { x \in types : Matches(x, c.method) } } :
              c \in calls }

\* The walk of a body that enumerates the live types for the dynamic calls
\* of the body and revisits no call seen before.
visitNoRevisit(f, types, seen) ==
    LET body == funcs[f]
        live == types \cup { i.type : i \in { x \in body : x.op = "make" } }
        calls == { i \in body : i.op = "invoke" }
    IN  [RuntimeTypes |-> live,
         sites |-> seen \cup calls,
         callees |-> { i.callee : i \in { x \in body : x.op = "call" } }
                        \cup dispatched(calls, live)]

\* The walk of the body of f: the callee of each static call is added; the
\* methods of the live types that match are added for each dynamic call;
\* a type that becomes live is matched against the dynamic calls seen
\* before.
visit(f, types, seen) ==
    LET body == funcs[f]
        live == types \cup { i.type : i \in { x \in body : x.op = "make" } }
        calls == seen \cup { i \in body : i.op = "invoke" }
    IN  [RuntimeTypes |-> live,
         sites |-> calls,
         callees |-> { i.callee : i \in { x \in body : x.op = "call" } }
                        \cup dispatched(calls, live)]

\* The engine starts with the roots reachable and on the worklist.
InitRTA ==
    /\ pc = "rta"
    /\ funcs \in IRPrograms
    /\ roots \in {<<1>>, <<1, 2>>}
    /\ Reachable = { roots[i] : i \in DOMAIN roots }
    /\ worklist = { roots[i] : i \in DOMAIN roots }
    /\ RuntimeTypes = {}
    /\ sites = {}
    /\ pathTargets = {}
    /\ pathResult = <<>>
    /\ cfg = <<>>
    /\ filter = NilRegexp
    /\ sourceFuncs = <<>>
    /\ generated = {}
    /\ reachablePosn = {}
    /\ byPkgPath = <<>>
    /\ jsonPkgs = <<>>
    /\ CallGraph = <<>>
    /\ OverexportedIdle
    /\ NoCommand

\* "While the worklist is non-empty, pop a function and walk its body."
rtaVisit ==
    /\ pc = "rta"
    /\ \E f \in worklist :
         LET st == visit(f, RuntimeTypes, sites)
         IN  /\ Reachable' = Reachable \cup st.callees
             /\ worklist' = (worklist \ {f}) \cup (st.callees \ Reachable)
             /\ RuntimeTypes' = st.RuntimeTypes
             /\ sites' = st.sites
    /\ UNCHANGED <<pc, cfg, filter, funcs, sourceFuncs, generated, reachablePosn, byPkgPath,
                   jsonPkgs, roots, CallGraph, searchVars, ovVars, ioVars>>

\* The fixed point: the worklist is empty and the engine returns.
rtaReturn ==
    /\ pc = "rta"
    /\ worklist = {}
    /\ pc' = "fixed"
    /\ UNCHANGED <<cfg, filter, funcs, sourceFuncs, generated, Reachable, reachablePosn,
                   byPkgPath, jsonPkgs, roots, CallGraph, rtaVars, searchVars, ovVars, ioVars>>

NextRTA ==
    \/ rtaVisit
    \/ rtaReturn

SpecRTA == InitRTA /\ [][NextRTA]_vars

\* The engine goes on while it can: a step that is possible is taken.
SpecRTAFair == SpecRTA /\ WF_vars(NextRTA)

(* deadcode: pathSearch on the roots, call graphs and targets it may be given *)

\* most roots of a program
MaxRoots == 3

\* most edges of a call graph
MaxEdges == 4

\* A function as pathSearch reads it: its name, whether its package imports
\* "testing" itself (Testing), and whether "testing" is among the packages
\* its package imports at any depth (Depends).
PathFn(pkg, name, testing, depends) ==
    [Pkg |-> pkg, Name |-> name, Testing |-> testing, Depends |-> depends]

\* The functions: main and init of a, main of b, main of c (which imports
\* a package that imports "testing"), the main of a test binary, and F and
\* G of p.
PathFuncs ==
    << PathFn("a", "main", FALSE, FALSE),
       PathFn("b", "main", FALSE, FALSE),
       PathFn("a", "init", FALSE, FALSE),
       PathFn("c", "main", FALSE, TRUE),
       PathFn("a.test", "main", TRUE, TRUE),
       PathFn("p", "F", FALSE, FALSE),
       PathFn("p", "G", FALSE, FALSE) >>

\* The functions that may be roots.
PathRoots == 1..5

\* The edges a call graph may have, in the order rta adds them.
PathEdges ==
    << CallEdge(1, 6, TRUE, 1), CallEdge(1, 7, FALSE, 2), CallEdge(6, 7, TRUE, 3),
       CallEdge(2, 7, TRUE, 4), CallEdge(6, 1, TRUE, 5), CallEdge(3, 2, TRUE, 7),
       CallEdge(5, 7, TRUE, 8), CallEdge(4, 7, FALSE, 9), CallEdge(4, 6, TRUE, 10) >>

\* A callgraph.Graph with the edges E, made for the root first: it has a
\* node for that root and for every end of an edge.
PathGraph(first, E) ==
    LET nodes == {first} \cup { e.Caller : e \in E } \cup { e.Callee : e \in E }
    IN  [Nodes |-> nodes,
         Out |-> [n \in nodes |-> SelectSeq(PathEdges, LAMBDA e : e \in E /\ e.Caller = n)]]

\* The lists of at most n different elements of S, none empty.
RECURSIVE ListsUpTo(_, _)
ListsUpTo(S, n) ==
    IF n = 0 THEN {}
    ELSE { <<x>> : x \in S }
           \cup { Append(l, x) : l \in ListsUpTo(S, n - 1),
                                 x \in S }

\* pathSearch is about to be called.
InitPathSearch ==
    /\ pc = "search"
    /\ funcs = PathFuncs
    /\ roots \in { l \in ListsUpTo(PathRoots, MaxRoots) :
                     \A i, j \in DOMAIN l : i # j => l[i] # l[j] }
    /\ \E E \in SubsetsUpTo({ PathEdges[i] : i \in DOMAIN PathEdges }, MaxEdges) :
         CallGraph = PathGraph(roots[1], E)
    /\ pathTargets \in {{7}, {6, 7}, {2}}
    /\ pathResult = <<>>
    /\ cfg = <<>>
    /\ sourceFuncs = <<>>
    /\ Reachable = {}
    /\ reachablePosn = {}
    /\ byPkgPath = <<>>
    /\ jsonPkgs = <<>>
    /\ worklist = {}
    /\ RuntimeTypes = {}
    /\ sites = {}
    /\ filter = NilRegexp
    /\ generated = {}
    /\ OverexportedIdle
    /\ NoCommand

\* root, path := pathSearch(roots, res, targets): the roots are sorted in
\* place, then searched.
PathSearch ==
    /\ pc = "search"
    /\ \E sorted \in sortedRoots(roots) :
         /\ roots' = sorted
         /\ pathResult' = pathSearch(sorted, CallGraph, pathTargets)
    /\ pc' = "searched"
    /\ UNCHANGED <<cfg, filter, funcs, sourceFuncs, generated, Reachable, reachablePosn,
                   byPkgPath, jsonPkgs, CallGraph, rtaVars, pathTargets, ovVars, ioVars>>

NextPathSearch == PathSearch

SpecPathSearch == InitPathSearch /\ [][NextPathSearch]_vars

----------------------------------------------------------------------------
\* Either tool runs.
Init == InitDeadcode \/ InitOverexported

Next == NextDeadcode \/ NextOverexported

Spec == Init /\ [][Next]_vars

----------------------------------------------------------------------------
(* deadcode: properties *)

\* The places of the report: package i, record j.
ReportSlots ==
    { s \in (DOMAIN jsonPkgs) \X (1..MaxFn) : s[2] \in DOMAIN jsonPkgs[s[1]].Funcs }

\* The places of the report that give the source position posn.
ReportsAt(posn) ==
    { s \in ReportSlots :
        LET r == jsonPkgs[s[1]].Funcs[s[2]]
        IN  /\ r.Position.File = posn.Filename
            /\ r.Position.Line = posn.Line
            /\ r.Position.Col = posn.Column }

\* Some function of RTA's Reachable set has the position posn.
ReachableAt(posn) == \E g \in Reachable : funcs[g].Pos = posn

\* A marker method, as the documentation of isMarkerMethod describes it.
MarkerMethod(fn) ==
    /\ fn.Recv
    /\ ~IsExported(fn.Name)
    /\ ~fn.Params
    /\ ~fn.Results
    /\ fn.Body = "empty"
    /\ fn.Implements

\* The declaration is one deadcode has to report when it is unreachable.
Reportable(fn) ==
    /\ fn.Source
    /\ ~MarkerMethod(fn)
    /\ (~IsGenerated(fn.Pos.Filename) \/ cfg.generated)
    /\ MatchString(filter, FilePkg(fn.Pos.Filename))

\* C1: deadcode never reports a source function whose position is the
\* position of some function of RTA's Reachable set; with test variants of
\* one declaration, one reachable variant keeps every variant out of the
\* report.
C1_ReachablePositionNeverReported ==
    pc = "done" =>
        \A f \in Fns :
            (funcs[f].Source /\ ReachableAt(funcs[f].Pos))
                => ReportsAt(funcs[f].Pos) = {}

\* Two variants of one reportable declaration, one reachable and one not.
C1_Witness ==
    /\ pc = "done"
    /\ \E f, g \in Fns :
         /\ f # g
         /\ funcs[f].Pos = funcs[g].Pos
         /\ Reportable(funcs[f]) /\ Reportable(funcs[g])
         /\ f \in Reachable /\ g \notin Reachable
         /\ ReportsAt(funcs[g].Pos) = {}

\* C2: every source declaration whose position is not a reachable position,
\* that is not a marker method, is not in a generated file (or -generated is
\* set) and whose package matches the filter is reported, and exactly once:
\* no two records of the report share a position.
C2_UnreachableReportedOnce ==
    pc = "done" =>
        /\ \A f \in Fns :
              (Reportable(funcs[f]) /\ ~ReachableAt(funcs[f].Pos))
                  => Cardinality(ReportsAt(funcs[f].Pos)) = 1
        /\ \A s, t \in ReportSlots :
              jsonPkgs[s[1]].Funcs[s[2]].Position = jsonPkgs[t[1]].Funcs[t[2]].Position
                  => s = t

\* Two unreachable variants of one reportable declaration, reported once.
C2_Witness ==
    /\ pc = "done"
    /\ \E f, g \in Fns :
         /\ f # g
         /\ funcs[f].Pos = funcs[g].Pos
         /\ Reportable(funcs[f]) /\ Reportable(funcs[g])
         /\ ~ReachableAt(funcs[f].Pos)
         /\ Cardinality(ReportsAt(funcs[f].Pos)) = 1

\* C3: a marker method is never reported, whatever the reachability
\* result, the filter and the -generated flag.
C3_MarkerNeverReported ==
    pc = "done" =>
        \A f \in Fns :
            (funcs[f].Source /\ MarkerMethod(funcs[f]))
                => ReportsAt(funcs[f].Pos) = {}

\* An unreachable marker method that nothing else keeps out of the report.
C3_Witness ==
    /\ pc = "done"
    /\ \E f \in Fns :
         /\ funcs[f].Source
         /\ MarkerMethod(funcs[f])
         /\ ~ReachableAt(funcs[f].Pos)
         /\ ~IsGenerated(funcs[f].Pos.Filename)
         /\ MatchString(filter, FilePkg(funcs[f].Pos.Filename))
         /\ ReportsAt(funcs[f].Pos) = {}

----------------------------------------------------------------------------
(* overexported and both tools: properties *)

\* Run has returned a Result and no error.
Returned == pc = "return" /\ err = ""

\* Result.Exports has a record of the package with the name.
InResult(pkg, name) ==
    \E i \in DOMAIN result : result[i].PkgPath = pkg /\ result[i].Name = name

\* The declarations of the program, read off Members: the package-level
\* functions, types, variables and constants, and the methods declared in
\* source.  Name is the name a record of the result gives the declaration
\* (Type.Method for a method), Key the package path and Name joined by a
\* dot, Own the identifier declared, Recv the
\* receiver type of a method, Body whether the method is a function with a
\* body of a type that is neither an interface nor generic, TypePos the
\* position of the declaration of the receiver type.
Declarations ==
    { d : d \in
        { [Pkg |-> m.Pkg, Name |-> m.Name, Own |-> m.Name, Kind |-> m.Kind, Pos |-> m.Pos,
           Recv |-> "", Body |-> TRUE, TypePos |-> m.Pos,
           Key |-> m.Pkg \o "." \o m.Name] :
             m \in { x \in Members : x.Kind = "func" => ~x.Synthetic } }
        \cup
        UNION { { [Pkg |-> m.Pkg, Name |-> m.Name \o "." \o x.Name, Own |-> x.Name,
                   Kind |-> "method", Pos |-> x.Pos, Recv |-> m.Name,
                   Body |-> (x.MethodValue = "func"), TypePos |-> m.Pos,
                   Key |-> m.Pkg \o "." \o m.Name \o "." \o x.Name] :
                     x \in { y \in m.Methods : y.MethodValue # "synthetic" } } :
                m \in { x \in Members : x.Kind = "type" } } }

\* The declarations whose own name is exported.
ExportedDeclarations == { d : d \in { x \in Declarations : IsExported(x.Own) } }

\* The target packages that the filter and the exclude patterns leave in
\* the result.
AdmittedPkgs ==
    { pkg \in targetPaths :
        /\ LET re == exBuildFilterPattern(opts, prog.Modules)
           IN  re = NilRegexp \/ MatchString(re, pkg)
        /\ \A i \in DOMAIN opts.Exclude : ~matchPattern(opts.Exclude[i], pkg) }

\* The declaration is in a package of the set, and the generated-file rule
\* does not keep it out of the result.
Admitted(d, pkgs) ==
    /\ d.Pkg \in pkgs
    /\ (~IsGenerated(d.Pos.Filename) \/ opts.Generated)

\* The keys of the records of Result.Exports.
ResultKeys == { result[i].PkgPath \o "." \o result[i].Name : i \in DOMAIN result }

\* The key of the declaration in the usage index: the package path and the
\* name, joined by a dot.
IndexKey(d) == d.Key

\* C4: with the include-generated flag off, no declaration either tool
\* reports lies in a file bearing the generated marker.
C4_NoGeneratedReported ==
    /\ (pc = "done" /\ ~cfg.generated) =>
          \A s \in ReportSlots : ~IsGenerated(jsonPkgs[s[1]].Funcs[s[2]].Position.File)
    /\ (pc = "return" /\ ~opts.Generated) =>
          \A i \in DOMAIN result : ~IsGenerated(result[i].Position.File)

\* overexported has returned the unused exports of p without those of the
\* generated file, the flag being off.
C4_Witness ==
    /\ Returned
    /\ ~opts.Generated
    /\ InResult("p", "F")
    /\ "p.GenF" \notin externallyUsed
    /\ ~InResult("p", "GenF")

\* C5: every record of Result.Exports names a declared function, method,
\* type, variable or constant whose own name is exported.
C5_OnlyExportedReported ==
    pc = "return" =>
        \A i \in DOMAIN result :
            \E d \in ExportedDeclarations :
                /\ d.Pkg = result[i].PkgPath
                /\ d.Name = result[i].Name
                /\ d.Kind = result[i].Kind

\* The unused exports of p are reported; its unexported function f, its
\* unexported type t and the unexported method m of T are not.
C5_Witness ==
    /\ Returned
    /\ InResult("p", "F") /\ InResult("p", "T") /\ InResult("p", "T.M")
    /\ ~InResult("p", "f") /\ ~InResult("p", "t") /\ ~InResult("p", "T.m")

Indexable(d) ==
    d.Kind = "method" =>
        /\ d.Body
        /\ IsExported(d.Recv)
        /\ (~IsGenerated(d.TypePos.Filename) \/ opts.Generated)

DeclaringPkg(fn) == IF fn.Pkg # "" THEN fn.Pkg ELSE fn.Origin

\* The name of the receiver's type, "" for a function with no receiver.
ReceiverBase(fn) ==
    IF fn.Recv = NoRecv THEN ""
    ELSE IF fn.Recv.k = "Pointer" THEN fn.Recv.Elem.Name
    ELSE fn.Recv.Name

\* The name without the type arguments of an instantiation: G of "G[int]".
RECURSIVE OriginName(_)
OriginName(name) ==
    IF name = "" \/ SubSeq(name, 1, 1) = "[" THEN ""
    ELSE SubSeq(name, 1, 1) \o OriginName(Tail(name))

\* The function is the declaration d, or an instantiation of it.
Denotes(fn, d) ==
    /\ d.Kind \in {"func", "method"}
    /\ DeclaringPkg(fn) = d.Pkg
    /\ OriginName(fn.Name) = d.Own
    /\ ReceiverBase(fn) = d.Recv

\* The entry of a Uses table refers to the declaration d from a file of
\* another package.
UsedFromOutside(u, d) ==
    /\ u.From # d.Pkg
    /\ u.Obj.Pkg = d.Pkg
    /\ u.Obj.Name = d.Own
    /\ u.Obj.Recv = d.Recv
    /\ u.Obj.Class \in {"package", "method"}

\* C7 as stated: the callee of a call-graph edge from a function of a
\* package Q to an exported function or method of a target package P other
\* than Q is not reported; an exported function or method whose callers are
\* all of P and that nothing outside P refers to is reported (when nothing
\* else keeps it out of the result).
C7_CrossPackageCalls ==
    Returned =>
        LET keys == ResultKeys
            pkgs == AdmittedPkgs
        IN  /\ \A e \in prog.CallGraph :
                  \A d \in ExportedDeclarations :
                      ( /\ e.Callee.Pkg # ""
                        /\ Denotes(e.Callee, d)
                        /\ d.Pkg \in targetPaths
                        /\ DeclaringPkg(e.Caller) \notin {"", d.Pkg} )
                          => IndexKey(d) \notin keys
            /\ \A d \in ExportedDeclarations :
                  ( /\ d.Kind \in {"func", "method"}
                    /\ Indexable(d) /\ Admitted(d, pkgs)
                    /\ \A e \in prog.CallGraph :
                          Denotes(e.Callee, d) => DeclaringPkg(e.Caller) = d.Pkg
                    /\ \A u \in prog.Uses : ~UsedFromOutside(u, d) )
                      => IndexKey(d) \in keys

\* C8 as stated: an exported declaration of a target package (function,
\* method, type, alias, constant or variable) that a Uses table records a
\* use of from a file of another package is not reported.
C8_UsesFromOtherPackage ==
    Returned =>
        LET keys == ResultKeys
        IN  \A u \in prog.Uses :
                \A d \in ExportedDeclarations :
                    (d.Pkg \in targetPaths /\ UsedFromOutside(u, d))
                        => IndexKey(d) \notin keys

\* The named and alias types within a type, at any depth.
RECURSIVE TypesWithin(_)
TypesWithin(t) ==
    CASE t.k = "Named" ->
            {t} \cup UNION { TypesWithin(t.TypeArgs[i]) : i \in DOMAIN t.TypeArgs }
      [] t.k = "Alias" -> {t} \cup TypesWithin(t.Rhs)
      [] t.k \in {"Pointer", "Slice", "Array", "Chan"} -> TypesWithin(t.Elem)
      [] t.k = "Map" -> TypesWithin(t.Key) \cup TypesWithin(t.Elem)
      [] t.k = "Signature" ->
            UNION { TypesWithin(t.Params[i]) : i \in DOMAIN t.Params }
                \cup UNION { TypesWithin(t.Results[i]) : i \in DOMAIN t.Results }
      [] t.k = "Struct" -> UNION { TypesWithin(t.Fields[i]) : i \in DOMAIN t.Fields }
      [] t.k = "Interface" -> UNION { TypesWithin(t.Methods[i]) : i \in DOMAIN t.Methods }
      [] OTHER -> {}

\* The types a function mentions in the ways C9 lists: parameter and
\* result types, assertion, conversion and allocation targets, the types
\* of slices, maps and channels made, and the types whose fields are read.
MentionedTypes(fn) ==
    UNION { TypesWithin(fn.Params[i]) : i \in DOMAIN fn.Params }
    \cup UNION { TypesWithin(fn.Results[i]) : i \in DOMAIN fn.Results }
    \cup UNION { TypesWithin(fn.Instrs[i].Type) :
                   i \in { j \in DOMAIN fn.Instrs :
                             fn.Instrs[j].Op \in {"TypeAssert", "Convert", "ChangeType",
                                                  "Alloc", "MakeSlice", "MakeMap",
                                                  "MakeChan", "FieldAddr", "Field"} } }

\* C9 as stated: an exported type of a target package P that a reachable
\* function of another package mentions, at any depth, is not reported.
C9_TypeMentions ==
    Returned =>
        LET keys == ResultKeys
        IN  \A fn \in prog.Reachable :
                \A t \in MentionedTypes(fn) :
                    ( /\ t.Pkg \in targetPaths
                      /\ IsExported(t.Name)
                      /\ DeclaringPkg(fn) \notin {"", t.Pkg} )
                        => (t.Pkg \o "." \o t.Name) \notin keys

\* The generic declarations of the program: the function G and the type GT
\* of p.
GenericDeclarations == { d \in ExportedDeclarations : d.Pkg = "p" /\ d.Name \in {"G", "GT"} }

\* C10 as stated: a generic function or type of a target package of which
\* another package calls an instantiation, mentions an instantiation or
\* uses the name is not reported; one that no other package uses is reported
\* (when nothing else keeps it out of the result).
C10_GenericInstantiations ==
    Returned =>
        LET keys == ResultKeys
            pkgs == AdmittedPkgs
            calledOutside(d) ==
                \E e \in prog.CallGraph :
                    Denotes(e.Callee, d) /\ DeclaringPkg(e.Caller) \notin {"", d.Pkg}
            mentionedOutside(d) ==
                \E fn \in prog.Reachable :
                    /\ DeclaringPkg(fn) \notin {"", d.Pkg}
                    /\ \E t \in MentionedTypes(fn) : t.Pkg = d.Pkg /\ t.Name = d.Name
            usedOutside(d) == \E u \in prog.Uses : UsedFromOutside(u, d)
            runtimeType(d) ==
                \E t \in prog.RuntimeTypes :
                    t.k = "Named" /\ t.Pkg = d.Pkg /\ t.Name = d.Name
        IN  \A d \in GenericDeclarations :
                d.Pkg \in targetPaths =>
                    /\ (calledOutside(d) \/ mentionedOutside(d) \/ usedOutside(d))
                          => IndexKey(d) \notin keys
                    /\ ( /\ Admitted(d, pkgs)
                         /\ ~calledOutside(d) /\ ~mentionedOutside(d) /\ ~usedOutside(d)
                         /\ ~runtimeType(d) )
                          => IndexKey(d) \in keys

\* C11: an exported named type of a target package that RTA's RuntimeTypes
\* holds as a named type (itself, or an instantiation of it) is not
\* reported, whichever package made it escape.
C11_RuntimeTypesNotReported ==
    Returned =>
        LET keys == ResultKeys
        IN  \A t \in prog.RuntimeTypes :
                (t.k = "Named" /\ t.Pkg \in targetPaths /\ IsExported(t.Name))
                    => (t.Pkg \o "." \o t.Name) \notin keys

\* The type T of p is a runtime type and nothing else refers to it: it is
\* indexed and marked, and the result has the function F of p without it.
C11_Witness ==
    /\ Returned
    /\ TP \in prog.RuntimeTypes
    /\ "p.T" \in DOMAIN exports
    /\ "p.T" \in externallyUsed
    /\ InResult("p", "F")
    /\ ~InResult("p", "T")

\* Something of the package pkg refers to the declaration d: a function of
\* pkg calls it (or an instantiation of it), a file of pkg uses its name, or
\* a reachable function of pkg mentions the type.
RefersFrom(pkg, d) ==
    \/ \E e \in prog.CallGraph : DeclaringPkg(e.Caller) = pkg /\ Denotes(e.Callee, d)
    \/ \E u \in prog.Uses :
          /\ u.From = pkg
          /\ u.Obj.Pkg = d.Pkg /\ u.Obj.Name = d.Own /\ u.Obj.Recv = d.Recv
          /\ u.Obj.Class \in {"package", "method"}
    \/ \E fn \in prog.Reachable :
          /\ DeclaringPkg(fn) = pkg
          /\ d.Kind = "type"
          /\ \E t \in MentionedTypes(fn) : t.Pkg = d.Pkg /\ t.Name = d.Name

\* The declaration is referred to from the external test package of its
\* package and from no other package, and is no runtime type.
OnlyFromExternalTest(d) ==
    /\ RefersFrom(d.Pkg \o "_test", d)
    /\ \A pkg \in (AllPkgs \cup {""}) \ {d.Pkg, d.Pkg \o "_test"} : ~RefersFrom(pkg, d)
    /\ \A t \in prog.RuntimeTypes : ~(t.k = "Named" /\ t.Pkg = d.Pkg /\ t.Name = d.Name)

\* C12 as stated: with Test set, an exported identifier of a target package
\* P that only P_test refers to is not reported; with Test unset the same
\* identifier is reported (when nothing else keeps it out of the result).
C12_ExternalTestPackage ==
    Returned =>
        LET keys == ResultKeys
            pkgs == AdmittedPkgs
        IN  \A d \in ExportedDeclarations :
                (d.Pkg \in targetPaths /\ OnlyFromExternalTest(d)) =>
                    /\ opts.Test => IndexKey(d) \notin keys
                    /\ (~opts.Test /\ Indexable(d) /\ Admitted(d, pkgs))
                          => IndexKey(d) \in keys

\* The package belongs to one of the modules of the loaded packages: its
\* path is a module path or lies below one.
BelongsToModule(path) ==
    \E m \in ModulePaths(prog.Modules) : path = m \/ HasPrefix(path, m \o "/")

\* The declaration is indexed, unused, and neither the generated-file rule
\* nor an exclude pattern keeps it out of the result.
ReportableButForFilter(d) ==
    /\ d.Pkg \in targetPaths
    /\ Indexable(d)
    /\ IndexKey(d) \notin externallyUsed
    /\ (~IsGenerated(d.Pos.Filename) \/ opts.Generated)
    /\ \A i \in DOMAIN opts.Exclude : ~matchPattern(opts.Exclude[i], d.Pkg)

\* C13 as stated: with a filter expression every record is of a package the
\* expression matches; with "<module>" every record is of a package that
\* belongs to a module of the loaded packages; with no filter no package
\* is left out.
C13_Original ==
    Returned =>
        /\ opts.Filter \notin {"", "<module>"} =>
              \A i \in DOMAIN result : MatchString(Compile(opts.Filter), result[i].PkgPath)
        /\ opts.Filter = "<module>" =>
              \A i \in DOMAIN result : BelongsToModule(result[i].PkgPath)
        /\ opts.Filter = "" =>
              LET keys == ResultKeys
              IN  \A d \in ExportedDeclarations :
                      ReportableButForFilter(d) => IndexKey(d) \in keys

\* C13, amended: "<module>" restricts the records to the packages of the
\* modules when some loaded package has a module; when none has, it
\* leaves out no package, as the empty filter does.
C13_FilterRestrictsPackages ==
    Returned =>
        /\ opts.Filter \notin {"", "<module>"} =>
              \A i \in DOMAIN result : MatchString(Compile(opts.Filter), result[i].PkgPath)
        /\ (opts.Filter = "<module>" /\ ModulePaths(prog.Modules) # {}) =>
              \A i \in DOMAIN result : BelongsToModule(result[i].PkgPath)
        /\ (opts.Filter = "" \/ (opts.Filter = "<module>" /\ ModulePaths(prog.Modules) = {})) =>
              LET keys == ResultKeys
              IN  \A d \in ExportedDeclarations :
                      ReportableButForFilter(d) => IndexKey(d) \in keys

\* With "<module>" and the modules p and q, the unused function F of p is
\* reported and the unused function F of p_test, whose path does not end at
\* a word boundary after "p", is not.
C13_Witness ==
    /\ Returned
    /\ opts.Filter = "<module>"
    /\ ModulePaths(prog.Modules) = {"p", "q"}
    /\ InResult("p", "F")
    /\ "p_test.F" \in DOMAIN exports /\ "p_test.F" \notin externallyUsed
    /\ ~InResult("p_test", "F")

\* A pattern matches a path, in the words of C14: it is the path, or it is
\* X/... and the path is X or begins with X/, or it is ... or ./... .
PatternMatches(pattern, path) ==
    \/ pattern = path
    \/ /\ HasSuffix(pattern, "/...")
       /\ LET X == SubSeq(pattern, 1, Len(pattern) - 4)
          IN  path = X \/ HasPrefix(path, X \o "/")
    \/ pattern \in {"...", "./..."}

\* The declaration is indexed, unused, and neither the generated-file rule
\* nor the filter keeps it out of the result.
ReportableButForExclude(d) ==
    /\ d.Pkg \in targetPaths
    /\ Indexable(d)
    /\ IndexKey(d) \notin externallyUsed
    /\ (~IsGenerated(d.Pos.Filename) \/ opts.Generated)
    /\ (filter = NilRegexp \/ MatchString(filter, d.Pkg))

\* C14: a declaration that would be reported is left out if and only if
\* some exclude pattern matches its package path; when no exclude pattern
\* matches a package, the result is what it is with no exclude pattern.
C14_ExcludePatterns ==
    Returned =>
        LET keys == ResultKeys
            excluded(path) == \E i \in DOMAIN opts.Exclude : PatternMatches(opts.Exclude[i], path)
        IN  /\ \A d \in ExportedDeclarations :
                  ReportableButForExclude(d) => (IndexKey(d) \notin keys <=> excluded(d.Pkg))
            /\ (\A pkg \in AllPkgs : ~excluded(pkg)) =>
                  keys = { IndexKey(d) : d \in { x \in ExportedDeclarations :
                                                   ReportableButForExclude(x) } }

\* With the pattern p/... the unused function F of p is left out and the
\* unused function F of p_test, whose path only begins with "p", is
\* reported.
C14_Witness ==
    /\ Returned
    /\ opts.Exclude = <<"p/...">>
    /\ "p.F" \in DOMAIN exports /\ "p.F" \notin externallyUsed
    /\ ~InResult("p", "F")
    /\ InResult("p_test", "F")

\* The lines of the output that are records of exports.
OutputRecords == SelectSeq(stdout, LAMBDA l : l.Line \in {"export", "json"})

\* The order C15 states: package path, then file path, then line.
RecordOrder(a, b) ==
    \/ StrLess(a.PkgPath, b.PkgPath)
    \/ /\ a.PkgPath = b.PkgPath
       /\ \/ StrLess(a.File, b.File)
          \/ a.File = b.File /\ a.LineNo <= b.LineNo

\* C15 as stated: the records of deadcode, and those of the text output and
\* of the JSON output of overexported, are in the order of package path,
\* then file path, then line.
C15_OutputOrder ==
    /\ pc = "done" =>
          /\ \A i, j \in DOMAIN jsonPkgs :
                i < j => StrLess(jsonPkgs[i].Path, jsonPkgs[j].Path)
          /\ \A i \in DOMAIN jsonPkgs :
                \A j, k \in DOMAIN jsonPkgs[i].Funcs :
                    j < k =>
                        LET a == jsonPkgs[i].Funcs[j].Position
                            b == jsonPkgs[i].Funcs[k].Position
                        IN  StrLess(a.File, b.File) \/ (a.File = b.File /\ a.Line <= b.Line)
    /\ (pc = "exit" /\ exitCode = 0) =>
          LET recs == OutputRecords
          IN  \A i, j \in DOMAIN recs : i < j => RecordOrder(recs[i], recs[j])

\* The Result and the output that the run gives when every range over a map
\* gives the keys in one fixed order.
ReferenceResult ==
    buildResult(opts, SelectFrom(KeyOrder, DOMAIN exports), exports, externallyUsed,
                generated, filter)

\* C16: the output is a function of the inputs alone: whatever order the
\* ranges over maps take, Result.Exports, the text and the JSON of
\* overexported, and the packages of deadcode, are those of the run that
\* takes the reference order.
C16_Deterministic ==
    /\ Returned => result = ReferenceResult
    /\ (pc = "exit" /\ exitCode = 0) =>
          stdout = IF args.JSON THEN printResultJSON(ReferenceResult)
                   ELSE printResult(ReferenceResult)
    /\ pc = "done" =>
          LET all == UNION {byPkgPath[k] : k \in DOMAIN byPkgPath}
              sorted == CHOOSE s \in SortedOrderings(all) : TRUE
          IN  jsonPkgs = jsonPackages(SortedKeys(DOMAIN byPkgPath),
                             [k \in DOMAIN byPkgPath |-> SelectFrom(sorted, byPkgPath[k])])

\* The source-level functions whose qualified pretty-name is Q.
Matching(Q) ==
    { f \in DOMAIN funcs : funcs[f].Source /\ prettyName(funcs[f], TRUE) = Q }

\* The functions a path of the call graph reaches from a root, the dynamic
\* edges allowed; a root is reached by the path of no edge.
PathReached ==
    LET edges == UNION { { CallGraph.Out[n][i] : i \in DOMAIN CallGraph.Out[n] } :
                           n \in CallGraph.Nodes }
    IN  ReachedFrom({ roots[i] : i \in DOMAIN roots }, edges)

\* The records printed are a path of one edge or more from a root to a
\* function named Q.
EmitsPath(Q) ==
    /\ exitCode = 0
    /\ stderr = ""
    /\ LET path == IF cfg.json THEN stdout[1].Objects
                   ELSE [i \in DOMAIN stdout |-> stdout[i].Object]
       IN  /\ Len(path) > 0
           /\ \E i \in DOMAIN roots : path[1].Initial = prettyName(funcs[roots[i]], TRUE)
           /\ path[Len(path)].Callee = Q

\* A deadcode -whylive run has ended.
WhyLiveEnded ==
    /\ pc = "exit"
    /\ cfg # <<>>
    /\ roots # <<>>
    /\ cfg.whyLive # ""

\* C17: a -whylive=Q run ends in exactly one of five ways, decided in this
\* order: not found iff no source-level function is named Q; else dead iff
\* no such function has a reachable position; else reachable only through
\* reflection iff no path of the call graph from a root reaches one; else
\* a root iff the path has no edge; else a path of one edge or more is
\* printed.
C17_WhyLiveOutcome ==
    WhyLiveEnded =>
        LET Q == cfg.whyLive
            failed(msg) == stderr = msg /\ exitCode = 1 /\ stdout = <<>>
        IN  IF Matching(Q) = {}
            THEN failed("not found in program")
            ELSE IF \A f \in Matching(Q) : funcs[f].Pos \notin ReachablePositions(Reachable)
            THEN failed("is dead code")
            ELSE IF Matching(Q) \cap PathReached = {}
            THEN failed("is reachable only through reflection")
            ELSE \/ /\ failed("is a root")
                    /\ \E i \in DOMAIN roots : roots[i] \in Matching(Q)
                 \/ EmitsPath(Q)

\* The command line is one of deadcode.
IsDeadcode == "WhyLive" \in DOMAIN args

\* The usage errors C18 lists: malformed flags, no positional argument and,
\* for deadcode, -json together with -f and a template that does not parse.
UsageError ==
    \/ args.Malformed
    \/ Len(args.Packages) = 0
    \/ /\ IsDeadcode
       /\ args.Format # ""
       /\ args.JSON \/ ~TemplateOk(args.Format)

\* C18: a command that has ended has the code 2 after a usage error,
\* otherwise the code 1 when it reported an error and the code 0 when it
\* did not, findings or none.
C18_ExitCodes ==
    (pc = "exit" /\ args # <<>>) =>
        IF UsageError THEN exitCode = 2
        ELSE IF stderr # "" THEN exitCode = 1
        ELSE exitCode = 0

\* C19: once the packages are loaded and the filter is compiled, Run fails
\* with the no-main-packages error when no package of the program is a
\* main package and succeeds when one is, with records or none; deadcode
\* does the same.
C19_NoMainPackages ==
    /\ (/\ pc = "return"
        /\ opts # <<>>
        /\ prog.Load = "ok"
        /\ opts.Filter \in {"", "<module>"} \/ CompileOk(opts.Filter)) =>
            IF prog.HasMain THEN err = ""
            ELSE err = "no main packages found"
    /\ (/\ pc = "exit"
        /\ cfg # <<>>
        /\ ~UsageError
        /\ prog.Load = "ok"
        /\ cfg.filter \in {"", "<module>"} \/ CompileOk(cfg.filter)) =>
            IF Len(prog.Mains) > 0 THEN stderr # "no main packages"
            ELSE stderr = "no main packages" /\ exitCode = 1

\* The pattern resolves to no package of the program.
Unresolvable(pattern) ==
    /\ pattern \notin {"./...", "..."}
    /\ \A path \in AllPkgs : ~PatternMatches(pattern, path)

\* C20: when one of the patterns resolves to no package, Run returns a load
\* error, never a Result.
C20_UnresolvablePattern ==
    (/\ pc = "return"
     /\ opts # <<>>
     /\ \E i \in DOMAIN patterns : Unresolvable(patterns[i])) =>
        err \in {"load packages", "packages contain errors"}

\* C21: at the fixed point Reachable is closed: it has the callee of every
\* static call of its functions, and for every dynamic call of its
\* functions the method of every type of RuntimeTypes whose method set
\* matches the call.
C21_ReachableClosed ==
    pc = "fixed" =>
        \A f \in Reachable :
            \A i \in funcs[f] :
                /\ i.op = "call" => i.callee \in Reachable
                /\ i.op = "invoke" =>
                      \A t \in RuntimeTypes :
                          Matches(t, i.method) => MethodSets[t][i.method] \in Reachable

\* main calls M through an interface and makes T live; the method M of T,
\* reached by that call, makes U live, and the method M of U is reachable
\* by the call seen before.
C21_Witness ==
    /\ pc = "fixed"
    /\ funcs[1] = {DynamicCall("M"), MakeLive("T")}
    /\ funcs[3] = {MakeLive("U")}
    /\ RuntimeTypes = {"T", "U"}
    /\ Reachable = {1, 3, 4}

\* The least sets closed under the rules of the analysis, computed by
\* rounds over whole sets instead of a worklist: every round makes live
\* the types the reached functions make and reaches their static callees
\* and the methods their dynamic calls select on the live types.
RECURSIVE LeastFixedPoint(_, _)
LeastFixedPoint(R, T) ==
    LET T2 == T \cup { i.type : i \in { x \in UNION { funcs[f] : f \in R } : x.op = "make" } }
        R2 == R \cup { i.callee : i \in { x \in UNION { funcs[f] : f \in R } : x.op = "call" } }
                \cup UNION { { MethodSets[t][i.method] :
                                 t \in { x \in T2 : i.method \in DOMAIN MethodSets[x] } } :
                             i \in { x \in UNION { funcs[f] : f \in R } : x.op = "invoke" } }
    IN  IF R2 = R /\ T2 = T THEN [Reachable |-> R, RuntimeTypes |-> T]
        ELSE LeastFixedPoint(R2, T2)

\* C27: the worklist of the analysis empties on every finite program, and
\* whatever the order the functions were taken in, the reachable functions
\* and the live types it ends with are the least sets closed under the
\* rules, where a further visit of any reached function adds nothing.
C27_LeastFixedPoint ==
    /\ <>(pc = "fixed")
    /\ [](pc = "fixed" =>
            LET least == LeastFixedPoint({ roots[i] : i \in DOMAIN roots }, {})
            IN  /\ worklist = {}
                /\ Reachable = least.Reachable
                /\ RuntimeTypes = least.RuntimeTypes
                /\ \A f \in Reachable :
                      /\ visit(f, RuntimeTypes, sites).callees \subseteq Reachable
                      /\ visit(f, RuntimeTypes, sites).RuntimeTypes = RuntimeTypes)

\* The analysis ended on a program where the order matters: one root calls
\* M dynamically, the other makes T live, and T's M was reached.
C27_Witness ==
    /\ pc = "fixed"
    /\ roots = <<1, 2>>
    /\ funcs[1] = {DynamicCall("M")}
    /\ funcs[2] = {MakeLive("T")}
    /\ Reachable = {1, 2, 3}
    /\ RuntimeTypes = {"T"}

\* The targets as C22 gives them: every loaded package when every pattern
\* is "./..." or "...", otherwise the loaded packages some pattern matches.
ExpectedTargets ==
    IF \A i \in DOMAIN patterns : patterns[i] \in {"./...", "..."}
    THEN AllPkgs
    ELSE { pkg \in AllPkgs : \E i \in DOMAIN patterns : matchPattern(patterns[i], pkg) }

\* The keys the same run reports when every loaded package is a target.
WidestKeys ==
    LET st == collectExportsSSA(opts, AllPkgs)
        used == findExternalUsage(opts, prog, prog.Uses, AllPkgs)
                    \cup markRuntimeTypes(prog, AllPkgs)
        order == CHOOSE o \in MapOrders(DOMAIN st.exports) : TRUE
        res == buildResult(opts, order, st.exports, used, st.generated, filter)
    IN  { [Key |-> res[i].PkgPath \o "." \o res[i].Name, PkgPath |-> res[i].PkgPath] :
            i \in DOMAIN res }

\* C22: the targets are every loaded package when every pattern is "./..."
\* or "...", otherwise the loaded packages that match a pattern; only
\* declarations of targets are reported; and a reference counts whether or
\* not the package it is made from is a target: when some loaded package is
\* not a target, the declarations of the targets that are reported are
\* those reported when every loaded package is a target.
C22_TargetsOnly ==
    /\ (pc \notin {"run"} /\ prog.Load = "ok") => targetPaths = ExpectedTargets
    /\ Returned =>
          /\ \A i \in DOMAIN result : result[i].PkgPath \in ExpectedTargets
          /\ ExpectedTargets # AllPkgs =>
                ResultKeys = { k.Key : k \in { x \in WidestKeys : x.PkgPath \in ExpectedTargets } }

\* p alone is the target, q (not a target) uses p.F, and the run reports
\* p.V and not p.F.
C22_Witness ==
    /\ Returned
    /\ patterns = <<"p">>
    /\ targetPaths = {"p"}
    /\ [From |-> "q", Obj |-> Object("p", "F", "", "package")] \in prog.Uses
    /\ "p.F" \notin ResultKeys
    /\ "p.V" \in ResultKeys

\* pathSearch has returned a path.
PathFound == pc = "searched" /\ pathResult.found

\* The edges of the call graph, and those a pass may follow: the static
\* edges alone when static is TRUE.
GraphEdges == UNION { { CallGraph.Out[n][i] : i \in DOMAIN CallGraph.Out[n] } :
                      n \in CallGraph.Nodes }

PassEdges(static) == { e \in GraphEdges : ~static \/ e.Static }

\* The number of edges of a shortest path along the edges E from a function
\* of frontier to one of goals, -1 when there is none; k edges led to
\* frontier and visited is what has been reached.
RECURSIVE Distance(_, _, _, _, _)
Distance(frontier, visited, E, goals, k) ==
    IF frontier \cap goals # {} THEN k
    ELSE IF frontier = {} THEN -1
    ELSE LET next == { e.Callee : e \in { x \in E : x.Caller \in frontier } } \ visited
         IN  Distance(next, visited \cup next, E, goals, k + 1)

\* The path is made of static edges alone.
StaticPath(path) == \A i \in DOMAIN path : path[i].Static

\* C23: the path pathSearch returns is a chain of edges of the call graph
\* from the root it returns to a target (the root itself a target when the
\* path is empty), and no path from that root to a target along the edges
\* its pass may follow has fewer edges.
C23_ShortestPath ==
    PathFound =>
        LET path == pathResult.path
            root == pathResult.root
            n == Len(path)
        IN  /\ root \in CallGraph.Nodes
            /\ \A i \in 1..n : path[i] \in GraphEdges
            /\ n = 0 => root \in pathTargets
            /\ n > 0 => /\ path[1].Caller = root
                        /\ \A i \in 1..(n - 1) : path[i].Callee = path[i + 1].Caller
                        /\ path[n].Callee \in pathTargets
            /\ n = Distance({root}, {root}, PassEdges(StaticPath(path)), pathTargets, 0)

\* The search from a.main went round the cycle of a.main and p.F and found
\* nothing in either pass; the main of c, tried next with the same visited
\* set, calls p.F again and reaches p.G by a dynamic call.
C23_Witness ==
    /\ PathFound
    /\ roots = <<1, 4>>
    /\ pathTargets = {7}
    /\ GraphEdges = {CallEdge(1, 6, TRUE, 1), CallEdge(6, 1, TRUE, 5),
                     CallEdge(4, 6, TRUE, 10), CallEdge(4, 7, FALSE, 9)}
    /\ pathResult.root = 4
    /\ pathResult.path = <<CallEdge(4, 7, FALSE, 9)>>

\* Some root reaches a target along static edges alone.
StaticallyReachable ==
    \E i \in DOMAIN roots :
        Distance({roots[i]}, {roots[i]}, PassEdges(TRUE), pathTargets, 0) >= 0

\* C24: when some root reaches some target along static edges alone, the
\* path pathSearch returns has static edges only, a shorter path with a
\* dynamic edge notwithstanding; the path it returns has a dynamic edge only
\* when no root reaches a target along static edges alone.
C24_StaticFirst ==
    /\ (pc = "searched" /\ \E i \in DOMAIN roots :
           /\ roots[i] \in CallGraph.Nodes
           /\ Distance({roots[i]}, {roots[i]}, PassEdges(TRUE), pathTargets, 0) >= 0)
          => pathResult.found
    /\ PathFound => (StaticPath(pathResult.path) <=> StaticallyReachable)

\* a.main calls p.G dynamically, and statically p.F, which calls p.G: the
\* path returned is the static one of two edges.
C24_Witness ==
    /\ PathFound
    /\ pathTargets = {7}
    /\ pathResult.root = 1
    /\ CallEdge(1, 7, FALSE, 2) \in GraphEdges
    /\ pathResult.path = <<CallEdge(1, 6, TRUE, 1), CallEdge(6, 7, TRUE, 3)>>
    /\ Distance({1}, {1}, PassEdges(FALSE), pathTargets, 0) = 1

\* The place of x in the list l.
IndexIn(l, x) == CHOOSE i \in DOMAIN l : l[i] = x

\* The order C25 gives the list before: after has the same roots; those
\* whose package does not depend on "testing" come before those whose
\* package does; of two roots equal on that, main comes before init; two
\* roots equal on both are in the order they had in before.
PreferredOrder(before, after) ==
    /\ Len(after) = Len(before)
    /\ { after[i] : i \in DOMAIN after } = { before[i] : i \in DOMAIN before }
    /\ \A i, j \in DOMAIN after :
          i < j =>
            LET x == funcs[after[i]]
                y == funcs[after[j]]
            IN  /\ ~(x.Depends /\ ~y.Depends)
                /\ x.Depends = y.Depends => ~(x.Name = "init" /\ y.Name # "init")
                /\ (x.Depends = y.Depends /\ (x.Name = "init") = (y.Name = "init"))
                      => IndexIn(before, after[i]) < IndexIn(before, after[j])

\* C25 as stated: pathSearch leaves its roots in the preferred order, roots
\* of packages that do not transitively import "testing" first, then main
\* before init, otherwise in the order they came in.
C25_PreferredOrder ==
    [][(pc = "search" /\ pc' = "searched") => PreferredOrder(roots, roots')]_vars

\* C25 as amended: pathSearch leaves the same roots in an order where those
\* whose package does not itself import "testing" come before those whose
\* package does and, of two roots equal on that, main comes before init.
C25_SortedRoots ==
    [][(pc = "search" /\ pc' = "searched") =>
          /\ Len(roots') = Len(roots)
          /\ { roots'[i] : i \in DOMAIN roots' } = { roots[i] : i \in DOMAIN roots }
          /\ \A i, j \in DOMAIN roots' :
                i < j =>
                  LET x == funcs[roots'[i]]
                      y == funcs[roots'[j]]
                  IN  /\ ~(x.Testing /\ ~y.Testing)
                      /\ x.Testing = y.Testing => ~(x.Name = "init" /\ y.Name # "init")]_vars

\* pathSearch has sorted three roots: a main, an init and the main of a test
\* binary.
C25_Witness ==
    /\ pc = "searched"
    /\ roots = <<1, 3, 5>>

\* The places in roots of the roots that have a call-graph node and reach a
\* target along the edges of a pass.
Reaching(static) ==
    { i \in DOMAIN roots :
        /\ roots[i] \in CallGraph.Nodes
        /\ Distance({roots[i]}, {roots[i]}, PassEdges(static), pathTargets, 0) >= 0 }

\* The least of a set of numbers that is not empty.
Least(S) == CHOOSE i \in S : \A j \in S : i <= j

\* C26: in each pass the roots are tried in the order the sort left them
\* in, and the path starts at the first of them that has a call-graph node
\* and reaches a target along the edges of the pass, whatever the lengths
\* of the paths from later roots; roots with no node are passed over, and
\* nothing is returned only when no root of either pass reaches a target.
C26_FirstRootInOrder ==
    pc = "searched" =>
        IF Reaching(TRUE) # {}
        THEN /\ pathResult.found
             /\ pathResult.root = roots[Least(Reaching(TRUE))]
             /\ StaticPath(pathResult.path)
        ELSE IF Reaching(FALSE) # {}
        THEN /\ pathResult.found
             /\ pathResult.root = roots[Least(Reaching(FALSE))]
        ELSE ~pathResult.found

\* The main of c, first after the sort, has no call-graph node; a.main,
\* next, reaches p.G in two edges and b.main, last, in one: the path starts
\* at a.main.
C26_Witness ==
    /\ PathFound
    /\ roots = <<4, 1, 2>>
    /\ 4 \notin CallGraph.Nodes
    /\ pathTargets = {7}
    /\ GraphEdges = {CallEdge(1, 6, TRUE, 1), CallEdge(6, 7, TRUE, 3), CallEdge(2, 7, TRUE, 4)}
    /\ pathResult.root = 1
    /\ Len(pathResult.path) = 2

\* Another package calls the declaration d (or an instantiation of it).
CalledOutside(d) ==
    \E e \in prog.CallGraph :
        Denotes(e.Callee, d) /\ DeclaringPkg(e.Caller) \notin {"", d.Pkg}

\* A reachable function of another package mentions the type d.
MentionedOutside(d) ==
    \E fn \in prog.Reachable :
        /\ DeclaringPkg(fn) \notin {"", d.Pkg}
        /\ \E t \in MentionedTypes(fn) : t.Pkg = d.Pkg /\ t.Name = d.Name

\* A file of another package uses the name of d itself.
NamedOutside(d) == \E u \in prog.Uses : UsedFromOutside(u, d)

\* A runtime type is the type d.
IsRuntimeType(d) ==
    \E t \in prog.RuntimeTypes : t.k = "Named" /\ t.Pkg = d.Pkg /\ t.Name = d.Name

\* C28 as stated: an exported package-level declaration of a target package
\* that is itself neither called, mentioned as a type nor named from
\* another package and is no runtime type is reported (when the filter, the
\* exclusions and the generated-file rule let it be), whatever methods or
\* struct fields of the same name other packages refer to.  The packages
\* whose path ends in "_test" are left to C29.
C28_SameNameObjects ==
    Returned =>
        LET keys == ResultKeys
            pkgs == AdmittedPkgs
        IN  \A d \in ExportedDeclarations :
                ( /\ d.Kind # "method"
                  /\ ~HasSuffix(d.Pkg, "_test")
                  /\ Admitted(d, pkgs)
                  /\ ~CalledOutside(d) /\ ~MentionedOutside(d)
                  /\ ~NamedOutside(d) /\ ~IsRuntimeType(d) )
                    => IndexKey(d) \in keys

\* A file of another package refers to an object of d's package that has
\* d's name and is not d (C28).
NameTakenOutside(d) ==
    \E u \in prog.Uses :
        /\ u.From # d.Pkg
        /\ u.Obj.Pkg = d.Pkg
        /\ u.Obj.Name = d.Own
        /\ ~UsedFromOutside(u, d)

\* What C29 says of a run: an exported package-level declaration of a
\* target package that a file of another package names, or an exported
\* function or method of one that a function of another package calls, is
\* not reported; an exported package-level declaration that no other
\* package refers to is reported (when the filter, the exclusions and the
\* generated-file rule let it be, and no other object of its name is
\* referred to).
OtherPackageCounts ==
    LET keys == ResultKeys
        pkgs == AdmittedPkgs
    IN  /\ \A u \in prog.Uses :
              \A d \in ExportedDeclarations :
                  ( /\ d.Kind # "method"
                    /\ d.Pkg \in targetPaths
                    /\ UsedFromOutside(u, d) )
                      => IndexKey(d) \notin keys
        /\ \A e \in prog.CallGraph :
              \A d \in ExportedDeclarations :
                  ( /\ e.Callee.Pkg # "" /\ e.Caller.Pkg # ""
                    /\ Denotes(e.Callee, d)
                    /\ d.Pkg \in targetPaths
                    /\ e.Caller.Pkg # d.Pkg )
                      => IndexKey(d) \notin keys
        /\ \A d \in ExportedDeclarations :
              ( /\ d.Kind # "method"
                /\ Admitted(d, pkgs)
                /\ ~CalledOutside(d) /\ ~MentionedOutside(d)
                /\ ~NamedOutside(d) /\ ~IsRuntimeType(d)
                /\ ~NameTakenOutside(d) )
                  => IndexKey(d) \in keys

\* C29 as stated: with Test unset, a reference to an export of a target
\* package P from a package of another path counts as an external use and a
\* reference from P itself does not, also when one of the two paths ends in
\* "_test".
C29_PathsEndingInTest == (Returned /\ ~opts.Test) => OtherPackageCounts

\* collectExportsSSA has returned: exports is the index of the run.
Indexed == pc \in {"roots", "usage", "runtime", "result"} \/ Returned

\* The exported methods the packages declare, with what C30 asks of each:
\* the key of the method and of its receiver type, whether the name of the
\* type is exported, whether the method is a function with a body, and
\* whether the file of the type and the file of the method are generated.
MethodDeclarations ==
    { [Pkg |-> d.Pkg, Key |-> d.Key, TypeKey |-> d.Pkg \o "." \o d.Recv,
       RecvExported |-> IsExported(d.Recv), Body |-> d.Body,
       TypeGenerated |-> IsGenerated(d.TypePos.Filename),
       Generated |-> IsGenerated(d.Pos.Filename)] :
        d \in { x \in ExportedDeclarations : x.Kind = "method" } }

\* The exported methods declared in the target packages.
ExportedMethods == { d \in MethodDeclarations : d.Pkg \in targetPaths }

\* The parts of C30 that follow its first: no method of an unexported type
\* is indexed or reported; with Generated unset no method whose receiver
\* type is declared in a generated file is indexed, whatever file declares
\* the method; and no two entries of the result are of the same method.
MethodsFollowTypes ==
    /\ \A d \in ExportedMethods : ~d.RecvExported => d.Key \notin DOMAIN exports
    /\ \A d \in ExportedMethods :
          (~opts.Generated /\ d.TypeGenerated) => d.Key \notin DOMAIN exports
    /\ \A i \in DOMAIN result :
          result[i].Kind = "method" =>
            \E d \in ExportedMethods :
                /\ d.Key = result[i].PkgPath \o "." \o result[i].Name
                /\ d.RecvExported
                /\ d.TypeKey \in DOMAIN exports
    /\ \A i, j \in DOMAIN result :
          (i # j) => <<result[i].PkgPath, result[i].Name>> # <<result[j].PkgPath, result[j].Name>>

\* C30 as stated: an exported method of a target package is in the index
\* if and only if its receiver type is exported and the declaration of that
\* type is in the index; and what follows from it.
C30_MethodsThroughType ==
    Indexed =>
        /\ \A d \in ExportedMethods :
              d.Key \in DOMAIN exports
                  <=> (d.RecvExported /\ d.TypeKey \in DOMAIN exports)
        /\ MethodsFollowTypes

\* C30 as amended: an exported method of a target package is in the index
\* if and only if its receiver type is exported, the declaration of that
\* type is in the index, the method is a declared function with a body (its
\* type is neither an interface nor generic) and, with Generated unset, the
\* method is not itself declared in a generated file; and what follows.
C30_MethodsOfIndexedTypes ==
    Indexed =>
        /\ \A d \in ExportedMethods :
              d.Key \in DOMAIN exports
                  <=> ( /\ d.RecvExported
                        /\ d.TypeKey \in DOMAIN exports
                        /\ d.Body
                        /\ (opts.Generated \/ ~d.Generated) )
        /\ MethodsFollowTypes

\* A run with Generated unset has reported T.M and T.P of p: the index has
\* T and the two methods, once each, and neither GenT, declared in a
\* generated file, nor its method M, declared in a hand-written one, nor
\* the method M of the unexported t.
C30_Witness ==
    /\ Returned
    /\ ~opts.Generated
    /\ InResult("p", "T.M") /\ InResult("p", "T.P")
    /\ {"p.T", "p.T.M", "p.T.P"} \subseteq DOMAIN exports
    /\ {"p.GenT", "p.GenT.M", "p.t.M", "p.T.GenM", "p.I.M"} \cap DOMAIN exports = {}


====
